---- MODULE Spec2Model ----
(***************************************************************************)
(* A model of the scf-pdp solver core: the problem instance, the solution  *)
(* evaluator (distance, fairness, objective, validity), the neighbourhood  *)
(* move generator, local search, beam search and simulated annealing.      *)
(*                                                                         *)
(* Conventions.  Vehicles are numbered 1..n_vehicles and requests          *)
(* 1..n_reqs (the code counts both from 0).  Node indices are the code's:  *)
(* 0 is the depot, r the pickup of request r, n_reqs + r its dropoff.      *)
(* An f64 quantity of the form  integer + rho * (1 - fairness)  is kept as *)
(* an exact value [i, n, d] standing for  i + n / d ; coordinates, rho and *)
(* temperatures are integers.                                              *)
(***************************************************************************)
EXTENDS Integers, Sequences, FiniteSets, TLC

VARIABLES
    inst,             \* the Instance a solver or a Solution refers to
    overflow_checks,  \* the build: TRUE panics on usize overflow, FALSE wraps
    routes,           \* Solution.routes of the solution under evaluation
    valid,            \* what Solution::is_valid answered for it
    bs,               \* BeamSearch::search: its configuration and locals
    ls,               \* LocalSearch::solve: its configuration and locals
    sa,               \* SimulatedAnnealing::solve: its configuration and locals
    dc,               \* a construction heuristic's solve: its kind and outcome
    vn,               \* VND::solve: its configuration and locals
    gr,               \* GRASP::solve: its configuration and locals
    ev                \* what the Solution's evaluator methods returned for it

vars == <<inst, overflow_checks, routes, valid, bs, ls, sa, dc, vn, gr, ev>>

-----------------------------------------------------------------------------
(* Generic sequence helpers.                                               *)

Range(s) == {s[i] : i \in DOMAIN s}

RECURSIVE SumSeq(_)
SumSeq(s) ==
    IF s = <<>> THEN 0
    ELSE IF Len(s) = 1 THEN s[1]
    ELSE SumSeq(SubSeq(s, 1, Len(s) \div 2))
           + SumSeq(SubSeq(s, (Len(s) \div 2) + 1, Len(s)))

RECURSIVE Concat(_)
Concat(ss) == IF ss = <<>> THEN <<>> ELSE Head(ss) \o Concat(Tail(ss))

Last(s) == s[Len(s)]

\* Vec::insert(position, x) with a 0-based position.
InsertAt(s, position, x) ==
    SubSeq(s, 1, position) \o <<x>> \o SubSeq(s, position + 1, Len(s))

Reverse(s) == [i \in 1..Len(s) |-> s[Len(s) + 1 - i]]

SeqsUpTo(S, n) == UNION {[1..m -> S] : m \in 0..n}

\* All sequences without repetition of exactly m elements of S.
RECURSIVE Arrangements(_, _)
Arrangements(S, m) ==
    IF m = 0 THEN {<<>>}
    ELSE UNION {{<<x>> \o t : t \in Arrangements(S \ {x}, m - 1)} : x \in S}

Min2(a, b) == IF a <= b THEN a ELSE b

-----------------------------------------------------------------------------
(* Instance.                                                               *)

n_reqs(I) == I.n_reqs
n_vehicles(I) == I.n_vehicles
cap_one_more(I) == I.cap + 1
cap(I) == I.cap
gamma(I) == I.gamma
rho(I) == I.rho
demands(I) == I.demands

\* [depot, pickup_1 .. pickup_n, dropoff_1 .. dropoff_n]; node u is at u + 1.
all_locations(I) == I.locs

pickup_index(I, req_id) == req_id
dropoff_index(I, req_id) == n_reqs(I) + req_id

\* ceil of the square root of a natural number.
CeilSqrt(q) == CHOOSE r \in 0..q : r * r >= q /\ (r = 0 \/ (r - 1) * (r - 1) < q)

\* dist[u][v] of compute_distance_matrix: ceil(hypot(dx, dy)).
Dist(I, u, v) ==
    LET a == all_locations(I)[u + 1]
        b == all_locations(I)[v + 1]
        dx == a[1] - b[1]
        dy == a[2] - b[2]
    IN CeilSqrt(dx * dx + dy * dy)

-----------------------------------------------------------------------------
(* Exact values  i + n / d  (d > 0, 0 <= n / d <= rho) and their order.    *)

Sign(x) == IF x < 0 THEN -1 ELSE IF x > 0 THEN 1 ELSE 0

\* f64::partial_cmp on two such values: -1 Less, 0 Equal, 1 Greater.  The
\* integer parts decide alone when they differ by more than rho.
Cmp(I, a, b) ==
    LET di == a.i - b.i
    IN IF di > rho(I) THEN 1
       ELSE IF di < 0 - rho(I) THEN -1
       ELSE Sign(di * a.d * b.d + a.n * b.d - b.n * a.d)

Less(I, a, b) == Cmp(I, a, b) = -1
LessEq(I, a, b) == Cmp(I, a, b) <= 0

-----------------------------------------------------------------------------
(* Solution evaluator.                                                     *)

\* One route's distance in Solution::get_route_distances.
RouteDistanceOneWay(I, route) ==
    IF route = <<>> THEN 0
    ELSE (IF route[1] # 0 THEN Dist(I, 0, route[1]) ELSE 0)
         + SumSeq([i \in 1..(Len(route) - 1) |-> Dist(I, route[i], route[i + 1])])
RouteDistance(I, route) ==
    IF route = <<>> THEN 0
    ELSE (IF route[1] # 0 THEN Dist(I, 0, route[1]) ELSE 0)
         + SumSeq([i \in 1..(Len(route) - 1) |-> Dist(I, route[i], route[i + 1])])
         + (IF Last(route) # 0 THEN Dist(I, Last(route), 0) ELSE 0)

get_route_distances(I, rs) == [v \in 1..Len(rs) |-> RouteDistance(I, rs[v])]

total_travel_distance(I, rs) == SumSeq(get_route_distances(I, rs))

\* rho * (1 - jain_fairness) of a vector of distances, as numerator and
\* denominator; fairness is 1 when the sum of squares is zero.
FairnessPenalty(I, distances) ==
    LET sum == SumSeq(distances)
        sum_sq == SumSeq([v \in 1..Len(distances) |-> distances[v] * distances[v]])
        k == Len(distances)
    IN IF sum_sq = 0 THEN [n |-> 0, d |-> 1]
       ELSE [n |-> rho(I) * (k * sum_sq - sum * sum), d |-> k * sum_sq]

\* `x <= eps` of jain_fairness for a whole number x: eps is 1e-12, strictly
\* between 0 and 1.
AtMostEps(x) == x < 1

\* Solution::jain_fairness as numerator and denominator: 1 when the sum of
\* squares is at most eps, else (sum * sum) / (k * sum_sq).
jain_fairness_unguarded(I, rs) ==
    LET distances == get_route_distances(I, rs)
        sum == SumSeq(distances)
        sum_sq == SumSeq([v \in 1..Len(distances) |-> distances[v] * distances[v]])
        k == Len(distances)
    IN [n |-> sum * sum, d |-> k * sum_sq]
jain_fairness(I, rs) ==
    LET distances == get_route_distances(I, rs)
        sum == SumSeq(distances)
        sum_sq == SumSeq([v \in 1..Len(distances) |-> distances[v] * distances[v]])
        k == Len(distances)
    IN IF AtMostEps(sum_sq) THEN [n |-> 1, d |-> 1]
       ELSE [n |-> sum * sum, d |-> k * sum_sq]

\* dist_sum + rho * (1 - fairness).
objective_function_value(I, rs) ==
    LET distances == get_route_distances(I, rs)
        f == FairnessPenalty(I, distances)
    IN [i |-> SumSeq(distances), n |-> f.n, d |-> f.d]

-----------------------------------------------------------------------------
(* Solution::is_valid.  A usize is kept as a signed integer: under a       *)
(* wrapping build a negative load -x stands for 2^64 - x, which exceeds    *)
(* every capacity and wraps back to a small value when enough is added.    *)

\* `served_by[req_id].is_some()`: the pickup was met before, in any route.
PickupSeenBeforeNoCheck(st, req_id) == FALSE
PickupSeenBefore(st, req_id) == st.served_by[req_id] # 0

\* `load + demands[req_id] > capacity` on usize.
OverCapacityNoCheck(I, sum) == FALSE
OverCapacity(I, sum) == sum < 0 \/ sum > cap(I)

\* `!picked_up[req_id]` or `served_by[req_id] != Some(vehicle_id)`.
DropoffWithoutPickupNoCheck(st, vehicle_id, req_id) == FALSE
DropoffWithoutPickup(st, vehicle_id, req_id) ==
    req_id \notin st.picked_up \/ st.served_by[req_id] # vehicle_id

\* One node of one route: the body of `for &node in route`.
ValidNode(I, oc, vehicle_id, node, st) ==
    IF st.out # "run" \/ node = 0 THEN st
    ELSE IF node >= 1 /\ node <= n_reqs(I) THEN
        LET req_id == node
            sum == st.load + demands(I)[req_id]
        IN IF PickupSeenBefore(st, req_id) THEN [st EXCEPT !.out = "false"]
           ELSE IF OverCapacity(I, sum) THEN [st EXCEPT !.out = "false"]
           ELSE [st EXCEPT !.load = sum,
                           !.picked_up = @ \cup {req_id},
                           !.served_by[req_id] = vehicle_id]
    ELSE IF node > n_reqs(I) /\ node <= 2 * n_reqs(I) THEN
        LET req_id == node - n_reqs(I)
        IN IF DropoffWithoutPickup(st, vehicle_id, req_id) THEN [st EXCEPT !.out = "false"]
           ELSE IF oc /\ st.load < demands(I)[req_id] THEN [st EXCEPT !.out = "panic"]
           ELSE [st EXCEPT !.load = @ - demands(I)[req_id],
                           !.served_count = @ + 1]
    ELSE st

RECURSIVE ValidRoute(_, _, _, _, _, _)
ValidRoute(I, oc, vehicle_id, route, i, st) ==
    IF i > Len(route) THEN
        IF st.out = "run" /\ st.load # 0 THEN [st EXCEPT !.out = "false"] ELSE st
    ELSE ValidRoute(I, oc, vehicle_id, route, i + 1,
                    ValidNode(I, oc, vehicle_id, route[i], st))

RECURSIVE ValidRoutes(_, _, _, _, _)
ValidRoutes(I, oc, rs, vehicle_id, st) ==
    IF vehicle_id > Len(rs) \/ st.out # "run" THEN st
    ELSE ValidRoutes(I, oc, rs, vehicle_id + 1,
                     ValidRoute(I, oc, vehicle_id, rs[vehicle_id], 1,
                                [st EXCEPT !.load = 0, !.picked_up = {}]))

\* "true", "false", or "panic" (a subtraction overflow under a checked build).
is_valid_run(I, oc, rs) ==
    LET st == ValidRoutes(I, oc, rs, 1,
                          [load |-> 0, picked_up |-> {},
                           served_by |-> [r \in 1..n_reqs(I) |-> 0],
                           served_count |-> 0, out |-> "run"])
    IN IF st.out # "run" THEN st.out
       ELSE IF st.served_count >= gamma(I) THEN "true" ELSE "false"

is_valid(I, oc, rs) == is_valid_run(I, oc, rs) = "true"

-----------------------------------------------------------------------------
(* Beam search: PartialSolution, successor generation, scoring, selection. *)

\* pickup_vehicle holds 0 for None.
initial_state(I) ==
    [routes |-> [v \in 1..n_vehicles(I) |-> <<>>],
     req_states |-> [r \in 1..n_reqs(I) |-> "Unserved"],
     served_count |-> 0,
     current_loads |-> [v \in 1..n_vehicles(I) |-> 0],
     pickup_vehicle |-> [r \in 1..n_reqs(I) |-> 0]]

apply_pickup(I, state, vehicle_id, req_id) ==
    [state EXCEPT !.routes[vehicle_id] = Append(@, pickup_index(I, req_id)),
                  !.req_states[req_id] = "PickedUp",
                  !.current_loads[vehicle_id] = @ + demands(I)[req_id],
                  !.pickup_vehicle[req_id] = vehicle_id]

apply_dropoff_uncounted(I, state, vehicle_id, req_id) ==
    [state EXCEPT !.routes[vehicle_id] = Append(@, dropoff_index(I, req_id)),
                  !.req_states[req_id] = "Delivered",
                  !.current_loads[vehicle_id] = @ - demands(I)[req_id]]
apply_dropoff(I, state, vehicle_id, req_id) ==
    [state EXCEPT !.routes[vehicle_id] = Append(@, dropoff_index(I, req_id)),
                  !.req_states[req_id] = "Delivered",
                  !.current_loads[vehicle_id] = @ - demands(I)[req_id],
                  !.served_count = @ + 1]

apply_depot_return(I, state, vehicle_id) ==
    [state EXCEPT !.routes[vehicle_id] = Append(@, 0)]

\* The pickup guard of generate_successors.
PickupAllowedNoCapacity(I, state, vehicle_id, req_id) ==
    state.req_states[req_id] = "Unserved"
PickupAllowed(I, state, vehicle_id, req_id) ==
    /\ state.req_states[req_id] = "Unserved"
    /\ state.current_loads[vehicle_id] + demands(I)[req_id] <= cap(I)

\* The dropoff guard of generate_successors.
DropoffAllowedAnyVehicle(I, state, vehicle_id, req_id) ==
    state.req_states[req_id] = "PickedUp"
DropoffAllowed(I, state, vehicle_id, req_id) ==
    /\ state.req_states[req_id] = "PickedUp"
    /\ state.pickup_vehicle[req_id] = vehicle_id

\* The depot-return guard of generate_successors.
DepotReturnAllowedWhileLoaded(I, state, vehicle_id) ==
    LET route == state.routes[vehicle_id]
        has_feasible_pickups ==
            \E req_id \in 1..n_reqs(I) : PickupAllowed(I, state, vehicle_id, req_id)
    IN /\ route # <<>>
       /\ Last(route) # 0
       /\ ~has_feasible_pickups
DepotReturnAllowed(I, state, vehicle_id) ==
    LET route == state.routes[vehicle_id]
        has_feasible_pickups ==
            \E req_id \in 1..n_reqs(I) : PickupAllowed(I, state, vehicle_id, req_id)
        has_pending_dropoffs ==
            \E req_id \in 1..n_reqs(I) : DropoffAllowed(I, state, vehicle_id, req_id)
    IN /\ route # <<>>
       /\ Last(route) # 0
       /\ ~has_feasible_pickups
       /\ ~has_pending_dropoffs

\* The successors one vehicle contributes: pickups, dropoffs, depot return.
VehicleSuccessors(I, state, vehicle_id) ==
    LET pick(req_id) ==
            IF PickupAllowed(I, state, vehicle_id, req_id)
            THEN <<apply_pickup(I, state, vehicle_id, req_id)>> ELSE <<>>
        drop(req_id) ==
            IF DropoffAllowed(I, state, vehicle_id, req_id)
            THEN <<apply_dropoff(I, state, vehicle_id, req_id)>> ELSE <<>>
    IN Concat([req_id \in 1..n_reqs(I) |-> pick(req_id)])
       \o Concat([req_id \in 1..n_reqs(I) |-> drop(req_id)])
       \o (IF DepotReturnAllowed(I, state, vehicle_id)
           THEN <<apply_depot_return(I, state, vehicle_id)>> ELSE <<>>)

generate_successors(I, state) ==
    Concat([vehicle_id \in 1..n_vehicles(I) |-> VehicleSuccessors(I, state, vehicle_id)])

\* The successors of every state of a beam, in beam order.
BeamSuccessors(I, beam) ==
    Concat([b \in 1..Len(beam) |-> generate_successors(I, beam[b])])

GammaPenalty == 10000
DepotReturnPenalty == 500
RouteEfficiencyPenalty == 200

CountIn(route, P(_)) == Cardinality({i \in 1..Len(route) : P(route[i])})

heuristic_score(I, state) ==
    LET rs == state.routes
        route_distances == get_route_distances(I, rs)
        total_distance == SumSeq(route_distances)
        f == FairnessPenalty(I, route_distances)
        gamma_penalty ==
            IF state.served_count < gamma(I)
            THEN (gamma(I) - state.served_count) * GammaPenalty ELSE 0
        IsDepot(loc) == loc = 0
        IsDelivery(loc) == loc > n_reqs(I)
        depot_return_penalty ==
            SumSeq([v \in 1..Len(rs) |-> CountIn(rs[v], IsDepot) * DepotReturnPenalty])
        route_efficiency_penalty ==
            SumSeq([v \in 1..Len(rs) |->
                      IF CountIn(rs[v], IsDelivery) < 2 /\ rs[v] # <<>>
                      THEN RouteEfficiencyPenalty ELSE 0])
    IN [i |-> total_distance + gamma_penalty + depot_return_penalty
              + route_efficiency_penalty,
        n |-> f.n, d |-> f.d]

\* slice::sort_by is stable: x goes after every element that is not greater.
RECURSIVE InsertSorted(_, _, _)
InsertSorted(I, sorted, x) ==
    IF sorted = <<>> THEN <<x>>
    ELSE IF Cmp(I, heuristic_score(I, x), heuristic_score(I, Last(sorted))) >= 0
         THEN Append(sorted, x)
         ELSE Append(InsertSorted(I, SubSeq(sorted, 1, Len(sorted) - 1), x), Last(sorted))

RECURSIVE SortByScore(_, _)
SortByScore(I, states) ==
    IF states = <<>> THEN <<>>
    ELSE InsertSorted(I, SortByScore(I, SubSeq(states, 1, Len(states) - 1)), Last(states))

\* Vec::dedup: drops an element equal to the one just before it.
RECURSIVE Dedup(_)
Dedup(states) ==
    IF Len(states) <= 1 THEN states
    ELSE LET rest == Dedup(SubSeq(states, 1, Len(states) - 1))
         IN IF Last(states) = Last(rest) THEN rest ELSE Append(rest, Last(states))

Take(s, n) == SubSeq(s, 1, Min2(n, Len(s)))

select_best_states_untruncated(I, beam_width, states) ==
    IF Len(states) <= beam_width THEN states
    ELSE SortByScore(I, Dedup(SortByScore(I, states)))
select_best_states(I, beam_width, states) ==
    IF Len(states) <= beam_width THEN states
    ELSE Take(SortByScore(I, Dedup(SortByScore(I, states))), beam_width)

is_feasible(I, state) ==
    /\ \A v \in 1..Len(state.current_loads) : state.current_loads[v] <= cap(I)
    /\ \A req_id \in 1..n_reqs(I) :
          state.req_states[req_id] = "Delivered" => state.pickup_vehicle[req_id] # 0

\* The filter of `complete` in search and of best_complete_solution.
IsCompleteAnyCount(I, state) == is_feasible(I, state)
IsComplete(I, state) == state.served_count >= gamma(I) /\ is_feasible(I, state)

Filter(s, P(_)) ==
    LET F[i \in 0..Len(s)] ==
            IF i = 0 THEN <<>>
            ELSE IF P(s[i]) THEN Append(F[i - 1], s[i]) ELSE F[i - 1]
    IN F[Len(s)]

\* Iterator::min_by keeps the first of several equally minimal elements.
RECURSIVE MinByObjective(_, _)
RECURSIVE MinByObjectiveLast(_, _)
MinByObjectiveLast(I, states) ==
    IF Len(states) = 1 THEN states[1]
    ELSE LET m == MinByObjectiveLast(I, SubSeq(states, 1, Len(states) - 1))
         IN IF LessEq(I, objective_function_value(I, Last(states).routes),
                         objective_function_value(I, m.routes))
            THEN Last(states) ELSE m
MinByObjective(I, states) ==
    IF Len(states) = 1 THEN states[1]
    ELSE LET m == MinByObjective(I, SubSeq(states, 1, Len(states) - 1))
         IN IF Less(I, objective_function_value(I, Last(states).routes),
                       objective_function_value(I, m.routes))
            THEN Last(states) ELSE m

\* Option<Solution>: <<>> is None, <<rs>> is Some of a solution with routes rs.
best_complete_solution(I, beam) ==
    LET Complete(state) == IsComplete(I, state)
        complete_solutions == Filter(beam, Complete)
    IN IF complete_solutions = <<>> THEN <<>>
       ELSE <<MinByObjective(I, complete_solutions).routes>>

\* Solution::empty(instance, n_vehicles).
fallback_solution_one_route(I) == << <<>> >>
fallback_solution(I) == [v \in 1..n_vehicles(I) |-> <<>>]

-----------------------------------------------------------------------------
(* Deterministic construction.                                             *)

\* The closure compute_route_distance: both depot legs are always added.
DetRouteDistance(I, route) ==
    IF route = <<>> THEN 0
    ELSE Dist(I, 0, route[1])
         + SumSeq([i \in 1..(Len(route) - 1) |-> Dist(I, route[i], route[i + 1])])
         + Dist(I, Last(route), 0)

\* `delta_distance - rho * delta_fairness` of assigning req_id to vehicle k.
\* The term rho * current_fairness is the same for every k of one request
\* and is left out of the value on both sides of a comparison.
DetScore(I, rs, k, req_id) ==
    LET test_routes ==
            [rs EXCEPT ![k] = @ \o <<pickup_index(I, req_id), dropoff_index(I, req_id)>>]
        new_distances == [v \in 1..Len(rs) |-> DetRouteDistance(I, test_routes[v])]
        current_distance == SumSeq([v \in 1..Len(rs) |-> DetRouteDistance(I, rs[v])])
        f == FairnessPenalty(I, new_distances)
    IN [i |-> SumSeq(new_distances) - current_distance, n |-> f.n, d |-> f.d]

\* The vehicle loop: the first vehicle of least score among those that fit;
\* 0 when none fits.
RECURSIVE DetBestVehicle(_, _, _, _, _, _)
DetBestVehicle(I, rs, loads, req_id, k, best) ==
    IF k > n_vehicles(I) THEN best
    ELSE IF loads[k] + demands(I)[req_id] > cap(I)
         THEN DetBestVehicle(I, rs, loads, req_id, k + 1, best)
    ELSE IF best = 0 \/ Less(I, DetScore(I, rs, k, req_id), DetScore(I, rs, best, req_id))
         THEN DetBestVehicle(I, rs, loads, req_id, k + 1, k)
    ELSE DetBestVehicle(I, rs, loads, req_id, k + 1, best)

\* `loads.iter().enumerate().min_by_key(..).map(..).unwrap_or(0)`: the first
\* vehicle of least load, and the code's index 0 (vehicle 1) when there is
\* no vehicle at all.
DetFallbackVehicle(I, loads) ==
    IF loads = <<>> THEN 1
    ELSE CHOOSE k \in 1..Len(loads) :
            /\ \A j \in 1..Len(loads) : loads[k] <= loads[j]
            /\ \A j \in 1..(k - 1) : loads[j] > loads[k]

\* `for req_id in 0..gamma.min(n_reqs)`: how many requests are assigned.
DetRequestCountOneShort(I) == Min2(gamma(I), n_reqs(I)) - 1
DetRequestCount(I) == Min2(gamma(I), n_reqs(I))

\* The request loop.  `routes[vehicle]` panics when the index is out of
\* bounds; the routes built so far are then lost.
RECURSIVE DetAssign(_, _, _, _)
DetAssign(I, rs, loads, req_id) ==
    IF req_id > DetRequestCount(I) THEN [panic |-> FALSE, routes |-> rs]
    ELSE LET best_vehicle == DetBestVehicle(I, rs, loads, req_id, 1, 0)
             vehicle == IF best_vehicle # 0 THEN best_vehicle
                        ELSE DetFallbackVehicle(I, loads)
         IN IF vehicle > Len(rs) THEN [panic |-> TRUE, routes |-> <<>>]
            ELSE DetAssign(I,
                    [rs EXCEPT ![vehicle] =
                        @ \o <<pickup_index(I, req_id), dropoff_index(I, req_id)>>],
                    [loads EXCEPT ![vehicle] = @ + demands(I)[req_id]],
                    req_id + 1)

\* DeterministicConstruction::construct_solution: its outcome.
construct_solution_run(I) ==
    DetAssign(I, [v \in 1..n_vehicles(I) |-> <<>>], [v \in 1..n_vehicles(I) |-> 0], 1)

\* The solution DeterministicConstruction::construct_solution returns.
construct_solution(I) == construct_solution_run(I).routes

-----------------------------------------------------------------------------
(* Neighbourhood move generator (LocalSearch).                             *)

\* Sorted, without duplicates: the requests whose pickup node is in the route.
extract_requests_from_route(I, route) ==
    LET present(r) == IF pickup_index(I, r) \in Range(route) THEN <<r>> ELSE <<>>
    IN Concat([r \in 1..n_reqs(I) |-> present(r)])

remove_request_from_route(I, route, request_id) ==
    LET Kept(node) == node # pickup_index(I, request_id)
                      /\ node # dropoff_index(I, request_id)
    IN Filter(route, Kept)

\* check_route_capacity: "ok", "over", or "underflow" where `current_load -=`
\* goes below zero (a panic under a checked build; under a wrapping build the
\* wrapped load exceeds the capacity and the answer is false).
RECURSIVE CapacityOutcome(_, _, _, _)
CapacityOutcome(I, route, i, current_load) ==
    IF i > Len(route) THEN "ok"
    ELSE LET node == route[i]
             load == IF node = 0 THEN current_load
                     ELSE IF node <= n_reqs(I) THEN current_load + demands(I)[node]
                     ELSE IF node <= 2 * n_reqs(I)
                          THEN current_load - demands(I)[node - n_reqs(I)]
                     ELSE current_load
         IN IF node = 0 THEN CapacityOutcome(I, route, i + 1, current_load)
            ELSE IF load < 0 THEN "underflow"
            ELSE IF load > cap(I) THEN "over"
            ELSE CapacityOutcome(I, route, i + 1, load)

check_route_capacity(I, route) == CapacityOutcome(I, route, 1, 0) = "ok"

\* insert_request_into_route: the pickup at `position` (0-based) and the
\* dropoff at the first later position that passes the capacity check.
\* [kind |-> "Some", route], [kind |-> "None"], or [kind |-> "panic"].
RECURSIVE InsertDropoff(_, _, _, _, _)
InsertDropoff(I, oc, test_route, request_id, dropoff_pos) ==
    IF dropoff_pos > Len(test_route) THEN [kind |-> "None", route |-> <<>>]
    ELSE LET final_route == InsertAt(test_route, dropoff_pos, dropoff_index(I, request_id))
             outcome == CapacityOutcome(I, final_route, 1, 0)
         IN IF outcome = "ok" THEN [kind |-> "Some", route |-> final_route]
            ELSE IF outcome = "underflow" /\ oc THEN [kind |-> "panic", route |-> <<>>]
            ELSE InsertDropoff(I, oc, test_route, request_id, dropoff_pos + 1)

insert_request_nowhere(I, oc, route, request_id, position) ==
    [kind |-> "Some", route |-> route]
insert_request_into_route(I, oc, route, request_id, position) ==
    InsertDropoff(I, oc, InsertAt(route, position, pickup_index(I, request_id)),
                  request_id, position + 1)

\* A candidate of a move: the routes, or a panic met while building or
\* validating it.  kind is "Some" (emitted), "None" (dropped) or "panic".
ValidatedUnchecked(v, new_routes) ==
    IF v = "panic" THEN [kind |-> "panic", routes |-> <<>>]
    ELSE [kind |-> "Some", routes |-> new_routes]
Validated(v, new_routes) ==
    IF v = "panic" THEN [kind |-> "panic", routes |-> <<>>]
    ELSE IF v = "true" THEN [kind |-> "Some", routes |-> new_routes]
    ELSE [kind |-> "None", routes |-> <<>>]

Candidate(I, oc, kinds, new_routes) ==
    IF "panic" \in kinds THEN [kind |-> "panic", routes |-> <<>>]
    ELSE IF "None" \in kinds THEN [kind |-> "None", routes |-> <<>>]
    ELSE Validated(is_valid_run(I, oc, new_routes), new_routes)

\* Every candidate relocate_nh builds, in its loop order.
RelocateCandidates(I, oc, current) ==
    LET nv == Len(current)
        ForPos(v1, v2, req, insert_pos) ==
            LET ins == insert_request_into_route(I, oc, current[v2], req, insert_pos)
            IN <<Candidate(I, oc, {ins.kind},
                    [current EXCEPT ![v1] = remove_request_from_route(I, current[v1], req),
                                    ![v2] = ins.route])>>
        ForReq(v1, v2, req) ==
            Concat([p \in 1..(Len(current[v2]) + 1) |-> ForPos(v1, v2, req, p - 1)])
        ForPair(v1, v2) ==
            IF v1 = v2 THEN <<>>
            ELSE LET reqs == extract_requests_from_route(I, current[v1])
                 IN Concat([q \in 1..Len(reqs) |-> ForReq(v1, v2, reqs[q])])
    IN Concat([v1 \in 1..nv |-> Concat([v2 \in 1..nv |-> ForPair(v1, v2)])])

\* Every candidate exchange_nh builds, in its loop order.
ExchangeCandidates(I, oc, current) ==
    LET nv == Len(current)
        ForPos(v1, v2, req1, req2, pos1, pos2) ==
            LET without1 == remove_request_from_route(I, current[v1], req1)
                without2 == remove_request_from_route(I, current[v2], req2)
                in1 == insert_request_into_route(I, oc, without1, req2, pos2)
                in2 == insert_request_into_route(I, oc, without2, req1, pos1)
            IN <<Candidate(I, oc, {in1.kind, in2.kind},
                    [current EXCEPT ![v1] = in1.route, ![v2] = in2.route])>>
        ForReqs(v1, v2, req1, req2) ==
            LET len1 == Len(remove_request_from_route(I, current[v1], req1))
                len2 == Len(remove_request_from_route(I, current[v2], req2))
            IN Concat([p1 \in 1..(len2 + 1) |->
                  Concat([p2 \in 1..(len1 + 1) |->
                     ForPos(v1, v2, req1, req2, p1 - 1, p2 - 1)])])
        ForPair(v1, v2) ==
            IF v2 <= v1 THEN <<>>
            ELSE LET reqs1 == extract_requests_from_route(I, current[v1])
                     reqs2 == extract_requests_from_route(I, current[v2])
                 IN Concat([q1 \in 1..Len(reqs1) |->
                       Concat([q2 \in 1..Len(reqs2) |->
                          ForReqs(v1, v2, reqs1[q1], reqs2[q2])])])
    IN Concat([v1 \in 1..nv |-> Concat([v2 \in 1..nv |-> ForPair(v1, v2)])])

\* Every candidate two_opt_nh builds: with 0-based i in 1..len-3 and j in
\* i+1..len-2 the segment route[i..=j] is reversed.
TwoOptCandidatesLongRoutes(I, oc, current) ==
    LET ForCut(v, i, j) ==
            LET route == current[v]
                new_route == SubSeq(route, 1, i)
                             \o Reverse(SubSeq(route, i + 1, j + 1))
                             \o SubSeq(route, j + 2, Len(route))
            IN <<Candidate(I, oc, {}, [current EXCEPT ![v] = new_route])>>
        ForRoute(v) ==
            IF Len(current[v]) < 5 THEN <<>>
            ELSE Concat([i \in 1..(Len(current[v]) - 3) |->
                    Concat([jj \in 1..(Len(current[v]) - 2 - i) |-> ForCut(v, i, i + jj)])])
    IN Concat([v \in 1..Len(current) |-> ForRoute(v)])
TwoOptCandidates(I, oc, current) ==
    LET ForCut(v, i, j) ==
            LET route == current[v]
                new_route == SubSeq(route, 1, i)
                             \o Reverse(SubSeq(route, i + 1, j + 1))
                             \o SubSeq(route, j + 2, Len(route))
            IN <<Candidate(I, oc, {}, [current EXCEPT ![v] = new_route])>>
        ForRoute(v) ==
            IF Len(current[v]) < 4 THEN <<>>
            ELSE Concat([i \in 1..(Len(current[v]) - 3) |->
                    Concat([jj \in 1..(Len(current[v]) - 2 - i) |-> ForCut(v, i, i + jj)])])
    IN Concat([v \in 1..Len(current) |-> ForRoute(v)])

Candidates(I, oc, neighborhood, current) ==
    IF neighborhood = "Relocate" THEN RelocateCandidates(I, oc, current)
    ELSE IF neighborhood = "Exchange" THEN ExchangeCandidates(I, oc, current)
    ELSE TwoOptCandidates(I, oc, current)

\* generate_neighbors: the routes of the emitted candidates, in order.
Emitted(cands) ==
    Concat([c \in 1..Len(cands) |->
               IF cands[c].kind = "Some" THEN <<cands[c].routes>> ELSE <<>>])

generate_neighbors(I, oc, neighborhood, current) ==
    Emitted(Candidates(I, oc, neighborhood, current))

\* generate_neighbors panics instead of returning.
AnyPanic(cands) == \E c \in 1..Len(cands) : cands[c].kind = "panic"

generate_neighbors_panics(I, oc, neighborhood, current) ==
    AnyPanic(Candidates(I, oc, neighborhood, current))

-----------------------------------------------------------------------------
(* LocalSearch::search_step.                                               *)

\* FirstImprovement: the first neighbour strictly below current_obj.
RECURSIVE FirstImproving(_, _, _, _)
FirstOfAny(I, neighbors, i, current_obj) ==
    IF neighbors = <<>> THEN <<>> ELSE <<neighbors[1]>>
FirstImproving(I, neighbors, i, current_obj) ==
    IF i > Len(neighbors) THEN <<>>
    ELSE IF Less(I, objective_function_value(I, neighbors[i]), current_obj)
         THEN <<neighbors[i]>>
    ELSE FirstImproving(I, neighbors, i + 1, current_obj)

\* The comparison `neighbor_obj < best_obj` of the BestImprovement loop.
BetterThanBestOrEqual(I, neighbor_obj, best_obj) == LessEq(I, neighbor_obj, best_obj)
BetterThanBest(I, neighbor_obj, best_obj) == Less(I, neighbor_obj, best_obj)

\* BestImprovement: best_neighbor and best_obj after the loop.
RECURSIVE BestImproving(_, _, _, _, _)
BestImproving(I, neighbors, i, best_neighbor, best_obj) ==
    IF i > Len(neighbors) THEN best_neighbor
    ELSE LET neighbor_obj == objective_function_value(I, neighbors[i])
         IN IF BetterThanBest(I, neighbor_obj, best_obj)
            THEN BestImproving(I, neighbors, i + 1, <<neighbors[i]>>, neighbor_obj)
            ELSE BestImproving(I, neighbors, i + 1, best_neighbor, best_obj)

\* Option<Solution>: <<>> is None, <<rs>> is Some.
StepAmong(I, step_function, neighbors, current_obj) ==
    IF step_function = "FirstImprovement"
    THEN FirstImproving(I, neighbors, 1, current_obj)
    ELSE BestImproving(I, neighbors, 1, <<>>, current_obj)

search_step(I, oc, neighborhood, step_function, current) ==
    StepAmong(I, step_function, generate_neighbors(I, oc, neighborhood, current),
              objective_function_value(I, current))

-----------------------------------------------------------------------------
(* The instances and inputs the checks range over.                         *)

MaxRouteLen == 4

Instance(nv, c, g, r, dem, locs) ==
    [n_reqs |-> Len(dem), n_vehicles |-> nv, cap |-> c, gamma |-> g, rho |-> r,
     demands |-> dem, locs |-> locs]

\* depot (0,0), pickups (1,0) and (2,0), dropoffs (1,1) and (2,1).
LayoutTwo == << <<0, 0>>, <<1, 0>>, <<2, 0>>, <<1, 1>>, <<2, 1>> >>

ValidityDemands == {<<1, 1>>, <<1, 2>>}
ValidityGammas == {1, 2}

\* Solution::new accepts any routes: the validity checks range over every
\* pair of routes with at most MaxRouteLen nodes in all.
ValidityInstances ==
    {Instance(2, 2, g, 1, dem, LayoutTwo) : g \in ValidityGammas, dem \in ValidityDemands}

Nodes(I) == 0..(2 * n_reqs(I))

RoutePairs(I, total) ==
    UNION {{<<a, b>> : b \in SeqsUpTo(Nodes(I), total - Len(a))}
           : a \in SeqsUpTo(Nodes(I), total)}

NoBeam == [pc |-> "off"]
NoLocalSearch == [pc |-> "off"]
NoAnnealing == [pc |-> "off"]
NoConstruction == [pc |-> "off"]
NoVND == [pc |-> "off"]
NoGRASP == [pc |-> "off"]
NoEvaluation == [pc |-> "off"]

-----------------------------------------------------------------------------
(* Specification SpecValid: a Solution is built and is_valid is called.    *)

InitValid ==
    /\ inst \in ValidityInstances
    /\ overflow_checks \in BOOLEAN
    /\ routes \in RoutePairs(inst, MaxRouteLen)
    /\ valid = "none"
    /\ bs = NoBeam /\ ls = NoLocalSearch /\ sa = NoAnnealing
    /\ dc = NoConstruction /\ vn = NoVND /\ gr = NoGRASP /\ ev = NoEvaluation

CallIsValid ==
    /\ valid = "none"
    /\ valid' = is_valid_run(inst, overflow_checks, routes)
    /\ UNCHANGED <<inst, overflow_checks, routes, bs, ls, sa, dc, vn, gr, ev>>

NextValid == CallIsValid

SpecValid == InitValid /\ [][NextValid]_vars

-----------------------------------------------------------------------------
(* Claims about is_valid, checked under SpecValid.                         *)

IsPickup(I, node) == node >= 1 /\ node <= n_reqs(I)
IsDropoff(I, node) == node > n_reqs(I) /\ node <= 2 * n_reqs(I)

Occurrences(rs, node) ==
    SumSeq([v \in 1..Len(rs) |-> Cardinality({i \in 1..Len(rs[v]) : rs[v][i] = node})])

\* Signed demand of a node: + at a pickup, - at a dropoff, 0 at the depot.
SignedDemand(I, node) ==
    IF IsPickup(I, node) THEN demands(I)[node]
    ELSE IF IsDropoff(I, node) THEN 0 - demands(I)[node - n_reqs(I)]
    ELSE 0

PrefixLoad(I, route, p) == SumSeq([i \in 1..p |-> SignedDemand(I, route[i])])

\* Requests with pickup and a later dropoff in one route.
FullyServed(I, rs) ==
    {r \in 1..n_reqs(I) :
        \E v \in 1..Len(rs) : \E i, j \in 1..Len(rs[v]) :
            i < j /\ rs[v][i] = pickup_index(I, r) /\ rs[v][j] = dropoff_index(I, r)}

\* C3: in a solution that is_valid accepts, every dropoff node has its
\* request's pickup node earlier in the same route, and no pickup node
\* occurs more than once over all routes.
C3_ValidPrecedenceAndSingleVehicle ==
    valid = "true" =>
        /\ \A v \in 1..Len(routes) : \A j \in 1..Len(routes[v]) :
              IsDropoff(inst, routes[v][j]) =>
                 \E i \in 1..(j - 1) : routes[v][i] = routes[v][j] - n_reqs(inst)
        /\ \A r \in 1..n_reqs(inst) : Occurrences(routes, pickup_index(inst, r)) <= 1

\* An accepted solution in which both vehicles serve a request.
C3_Witness ==
    /\ valid = "true"
    /\ \A v \in 1..Len(routes) : \E j \in 1..Len(routes[v]) : IsDropoff(inst, routes[v][j])

\* C4: in every route of a solution that is_valid accepts, the running load
\* (plus the demand at a pickup, minus it at a dropoff, depot ignored) never
\* exceeds capacity and is zero at the end of the route.
C4_ValidLoadProfile ==
    valid = "true" =>
        \A v \in 1..Len(routes) :
            /\ \A p \in 0..Len(routes[v]) : PrefixLoad(inst, routes[v], p) <= cap(inst)
            /\ PrefixLoad(inst, routes[v], Len(routes[v])) = 0

\* An accepted solution with a route that reaches the full capacity and has
\* a depot node inside.
C4_Witness ==
    /\ valid = "true"
    /\ \E v \in 1..Len(routes) :
          /\ \E p \in 1..Len(routes[v]) : PrefixLoad(inst, routes[v], p) = cap(inst)
          /\ 0 \in Range(routes[v])

\* C5: is_valid answers true only if at least gamma distinct requests are
\* fully served (pickup and dropoff in one route), whatever the node
\* sequences are.
C5_ValidServesGammaDistinct ==
    valid = "true" => Cardinality(FullyServed(inst, routes)) >= gamma(inst)

-----------------------------------------------------------------------------
(* Specification SpecBeam: BeamSearch::search, one action per pass of its  *)
(* loop, per bonus round and for the final choice.                         *)

MaxBeamWidth == 4
MaxDepth == 5

\* BeamSearch::new: `beam_width: 20`.
DefaultBeamWidth == 20

BeamWidths == (0..MaxBeamWidth) \cup {DefaultBeamWidth}

BeamVehicles == {0, 1, 2}
BeamCapacities == {1, 2}
BeamGammas == {0, 1, 2, 3}
BeamRhos == {0, 10}
BeamDemands == {<<1, 1>>, <<1, 2>>}

BeamInstances ==
    {Instance(nv, c, g, r, dem, LayoutTwo) :
        nv \in BeamVehicles, c \in BeamCapacities, g \in BeamGammas,
        r \in BeamRhos, dem \in BeamDemands}

\* BeamSearch::new: `max_depth: Some(200)`.
DefaultMaxDepth == 200

\* Option<usize>: <<>> is None, <<m>> is Some(m).  The field is set by new
\* (Some(200)) and by with_max_depth (Some(m)); no constructor leaves it None.
DepthOptions == {<<DefaultMaxDepth>>} \cup {<<m>> : m \in 0..MaxDepth}

\* `self.max_depth.unwrap_or(self.instance.n_reqs() * 4)`.
EffectiveMaxDepth(I, option) == IF option = <<>> THEN n_reqs(I) * 4 ELSE option[1]

InitBeam ==
    /\ inst \in BeamInstances
    /\ overflow_checks \in BOOLEAN
    /\ routes = <<>>
    /\ valid = "none"
    /\ \E w \in BeamWidths, option \in DepthOptions :
          bs = [pc |-> "loop",
                beam_width |-> w,
                max_depth |-> EffectiveMaxDepth(inst, option),
                beam |-> <<initial_state(inst)>>,
                depth |-> 0,
                rounds |-> 0,          \* expansion rounds run so far
                candidates |-> <<>>,   \* the argument of the last selection
                selected |-> FALSE,    \* the last step called select_best_states
                found |-> FALSE,       \* a complete feasible state was met
                fallback |-> FALSE,    \* the result is fallback_solution()
                result |-> <<>>]
    /\ ls = NoLocalSearch /\ sa = NoAnnealing
    /\ dc = NoConstruction /\ vn = NoVND /\ gr = NoGRASP /\ ev = NoEvaluation

BeamUnchanged == UNCHANGED <<inst, overflow_checks, routes, valid, ls, sa, dc, vn, gr, ev>>

\* A pass of the loop that finds no complete successor.
BeamExpand ==
    LET all_successors == BeamSuccessors(inst, bs.beam)
        Complete(s) == IsComplete(inst, s)
        Incomplete(s) == ~IsComplete(inst, s)
        complete == Filter(all_successors, Complete)
        incomplete == Filter(all_successors, Incomplete)
    IN /\ bs.pc = "loop"
       /\ bs.depth < bs.max_depth
       /\ bs.beam # <<>>
       /\ all_successors # <<>>
       /\ complete = <<>>
       /\ bs' = [bs EXCEPT !.beam = select_best_states(inst, bs.beam_width, incomplete),
                           !.candidates = incomplete,
                           !.selected = TRUE,
                           !.rounds = @ + 1,
                           !.depth = @ + 1]
       /\ BeamUnchanged

\* `if depth < max_depth - 1`: the bonus round follows the completion.
BonusAllowedAtLastDepth(depth, max_depth) == depth < max_depth
BonusAllowed(depth, max_depth) == depth < max_depth - 1

\* A pass of the loop that finds complete successors: they become the beam,
\* and the bonus round follows if depth < max_depth - 1.
BeamComplete ==
    LET all_successors == BeamSuccessors(inst, bs.beam)
        Complete(s) == IsComplete(inst, s)
        complete == Filter(all_successors, Complete)
    IN /\ bs.pc = "loop"
       /\ bs.depth < bs.max_depth
       /\ bs.beam # <<>>
       /\ complete # <<>>
       /\ bs' = [bs EXCEPT !.beam = select_best_states(inst, bs.beam_width, complete),
                           !.candidates = complete,
                           !.selected = TRUE,
                           !.found = TRUE,
                           !.rounds = @ + 1,
                           !.pc = IF BonusAllowed(bs.depth, bs.max_depth)
                                  THEN "bonus" ELSE "return"]
       /\ BeamUnchanged

\* The bonus round: the beam and its successors are reselected.
BeamBonus ==
    LET continued_beam == bs.beam \o BeamSuccessors(inst, bs.beam)
    IN /\ bs.pc = "bonus"
       /\ bs' = [bs EXCEPT !.beam = select_best_states(inst, bs.beam_width, continued_beam),
                           !.candidates = continued_beam,
                           !.selected = TRUE,
                           !.rounds = @ + 1,
                           !.pc = "return"]
       /\ BeamUnchanged

\* The loop ends: max_depth passes done, empty beam, or no successors.
BeamStop ==
    /\ bs.pc = "loop"
    /\ \/ bs.depth >= bs.max_depth
       \/ bs.beam = <<>>
       \/ BeamSuccessors(inst, bs.beam) = <<>>
    /\ bs' = [bs EXCEPT !.pc = "return", !.selected = FALSE]
    /\ BeamUnchanged

\* `best_complete_solution(&beam).unwrap_or_else(|| fallback_solution())`.
BeamReturn ==
    LET best == best_complete_solution(inst, bs.beam)
    IN /\ bs.pc = "return"
       /\ bs' = [bs EXCEPT !.pc = "done",
                           !.selected = FALSE,
                           !.fallback = (best = <<>>),
                           !.found = @ \/ best # <<>>,
                           !.result = IF best = <<>> THEN fallback_solution(inst)
                                      ELSE best[1]]
       /\ BeamUnchanged

NextBeam == BeamExpand \/ BeamComplete \/ BeamBonus \/ BeamStop \/ BeamReturn

SpecBeam == InitBeam /\ [][NextBeam]_vars

-----------------------------------------------------------------------------
(* Claims about beam search, checked under SpecBeam.                       *)

\* C1: a solution that search returns from its final beam (not the
\* all-empty fallback) fully serves at least gamma requests and is accepted
\* by is_valid.
C1_NonFallbackResultValid ==
    (bs.pc = "done" /\ ~bs.fallback) =>
        /\ Cardinality(FullyServed(inst, bs.result)) >= gamma(inst)
        /\ is_valid(inst, overflow_checks, bs.result)

\* C9 as stated: after a selection the beam holds at most beam_width states,
\* and fewer only when fewer candidates were handed to the selection.
C9_BeamWithinWidthOfCandidates ==
    bs.selected =>
        /\ Len(bs.beam) <= bs.beam_width
        /\ Len(bs.beam) < bs.beam_width => Len(bs.candidates) < bs.beam_width

\* C9, with candidates counted once each: after every selection (the bonus
\* round included) the beam holds at most beam_width states, and fewer only
\* when fewer than beam_width distinct candidates existed.
C9_BeamWithinWidth ==
    bs.selected =>
        /\ Len(bs.beam) <= bs.beam_width
        /\ Len(bs.beam) < bs.beam_width =>
              Cardinality(Range(bs.candidates)) < bs.beam_width

\* A selection in the bonus round that cuts more than beam_width candidates
\* down to beam_width states.
C9_Witness ==
    /\ bs.selected
    /\ bs.pc = "return"
    /\ bs.rounds = bs.depth + 2
    /\ bs.beam_width >= 2
    /\ Len(bs.candidates) > bs.beam_width
    /\ Len(bs.beam) = bs.beam_width

\* At most max_depth expansion rounds are run, the bonus round included, and
\* no route of a beam state or of the result is longer than max_depth nodes.
C10_RoundsWithinMaxDepth ==
    /\ bs.rounds <= bs.max_depth
    /\ \A b \in 1..Len(bs.beam) : \A v \in 1..Len(bs.beam[b].routes) :
          Len(bs.beam[b].routes[v]) <= bs.max_depth
    /\ \A v \in 1..Len(bs.result) : Len(bs.result[v]) <= bs.max_depth

\* A bound on the steps search still has to take: the passes of the loop
\* left, then the bonus round and the return.  It decreases at every step,
\* so every run of search ends.
BeamStepsLeft ==
    IF bs.pc = "loop" THEN 3 + (bs.max_depth - bs.depth)
    ELSE IF bs.pc = "bonus" THEN 2
    ELSE IF bs.pc = "return" THEN 1
    ELSE 0

\* C10: search terminates for every instance and beam width, beam_width = 1
\* included; it runs at most max_depth expansion rounds in all (the bonus
\* round included) and then returns, so no route of a beam state is ever
\* longer than max_depth nodes.
C10_TerminatesWithinMaxDepth ==
    [](C10_RoundsWithinMaxDepth /\ BeamStepsLeft >= 0) /\ [][BeamStepsLeft' < BeamStepsLeft]_vars

\* A search of beam width 1 that used all of its max_depth rounds, the bonus
\* round among them, and returned a solution from its beam.
C10_Witness ==
    /\ bs.pc = "done"
    /\ bs.beam_width = 1
    /\ bs.max_depth >= 3
    /\ bs.rounds = bs.max_depth
    /\ bs.rounds = bs.depth + 2
    /\ ~bs.fallback

\* C11: in every solution search returns, for any beam width, the running
\* load along each route never exceeds the vehicle capacity at any position.
C11_ResultWithinCapacity ==
    bs.pc = "done" =>
        \A v \in 1..Len(bs.result) : \A p \in 1..Len(bs.result[v]) :
            PrefixLoad(inst, bs.result[v], p) <= cap(inst)

\* A search of beam width 1 returns a solution from its beam in which a
\* vehicle is loaded to capacity while a request is still not picked up.
C11_Witness ==
    /\ bs.pc = "done"
    /\ bs.beam_width = 1
    /\ ~bs.fallback
    /\ \E v \in 1..Len(bs.result) : \E p \in 1..Len(bs.result[v]) :
          PrefixLoad(inst, bs.result[v], p) = cap(inst)
    /\ \E r \in 1..n_reqs(inst) : Occurrences(bs.result, pickup_index(inst, r)) = 0

\* C12: a search that ends without having met a feasible state with
\* served_count >= gamma returns exactly n_vehicles empty routes, which
\* is_valid rejects; no partially built route is returned.
C12_FallbackIsEmptyAndInvalid ==
    (bs.pc = "done" /\ ~bs.found) =>
        /\ Len(bs.result) = n_vehicles(inst)
        /\ \A v \in 1..Len(bs.result) : bs.result[v] = <<>>
        /\ ~is_valid(inst, overflow_checks, bs.result)

\* A search that used several rounds, still holds partially built routes in
\* its beam, never met a complete state, and returned the fallback.
C12_Witness ==
    /\ bs.pc = "done"
    /\ ~bs.found
    /\ bs.fallback
    /\ bs.rounds >= 2
    /\ bs.beam # <<>>
    /\ \E v \in 1..n_vehicles(inst) : bs.beam[1].routes[v] # <<>>
    /\ n_vehicles(inst) = 2

-----------------------------------------------------------------------------
(* Specification SpecStep: search_step is called on a valid solution.      *)

Neighborhoods == {"Relocate", "Exchange", "TwoOpt"}
StepFunctions == {"FirstImprovement", "BestImprovement"}

\* depot (0,0), pickups (1,0) and (0,2), dropoffs (1,1) and (2,2).
LayoutSpread == << <<0, 0>>, <<1, 0>>, <<0, 2>>, <<1, 1>>, <<2, 2>> >>

StepLayouts == {LayoutTwo, LayoutSpread}
StepRhos == {0, 10}
StepGammas == {1, 2}

StepInstances ==
    {Instance(2, 2, g, r, <<1, 1>>, locs) :
        g \in StepGammas, r \in StepRhos, locs \in StepLayouts}

InitStep ==
    /\ inst \in StepInstances
    /\ overflow_checks \in BOOLEAN
    /\ routes \in {rs \in RoutePairs(inst, MaxRouteLen) :
                      is_valid(inst, overflow_checks, rs)}
    /\ valid = "true"
    /\ bs = NoBeam
    /\ \E nh \in Neighborhoods, sf \in StepFunctions :
          ls = [pc |-> "step", neighborhood |-> nh, step_function |-> sf,
                step_result |-> <<>>, step_panic |-> FALSE]
    /\ sa = NoAnnealing
    /\ dc = NoConstruction /\ vn = NoVND /\ gr = NoGRASP /\ ev = NoEvaluation

\* `self.search_step(&current)` with current = routes.
CallSearchStep ==
    LET panics == generate_neighbors_panics(inst, overflow_checks, ls.neighborhood, routes)
    IN /\ ls.pc = "step"
       /\ ls' = [ls EXCEPT
                   !.pc = "stepped",
                   !.step_panic = panics,
                   !.step_result =
                       IF panics THEN <<>>
                       ELSE search_step(inst, overflow_checks, ls.neighborhood,
                                        ls.step_function, routes)]
       /\ UNCHANGED <<inst, overflow_checks, routes, valid, bs, sa, dc, vn, gr, ev>>

NextStep == CallSearchStep

SpecStep == InitStep /\ [][NextStep]_vars

\* The neighbours search_step generated in the step just taken.
StepNeighbors == generate_neighbors(inst, overflow_checks, ls.neighborhood, routes)

Obj(rs) == objective_function_value(inst, rs)

\* C6: a BestImprovement step returns nothing or a neighbour with strictly
\* lower objective than the current solution that is minimal among all
\* generated neighbours, the first such in enumeration order.
C6_BestImprovementStep ==
    (ls.pc = "stepped" /\ ls.step_function = "BestImprovement" /\ ~ls.step_panic) =>
        \/ ls.step_result = <<>>
        \/ LET nbrs == StepNeighbors
               objs == [j \in 1..Len(nbrs) |-> Obj(nbrs[j])]
               got == Obj(ls.step_result[1])
           IN /\ Less(inst, got, Obj(routes))
              /\ \E k \in 1..Len(nbrs) :
                    /\ nbrs[k] = ls.step_result[1]
                    /\ \A j \in 1..Len(nbrs) : LessEq(inst, got, objs[j])
                    /\ \A j \in 1..(k - 1) : Less(inst, got, objs[j])

\* A BestImprovement step that returned a neighbour which ties with a later,
\* different neighbour.
C6_Witness ==
    /\ ls.pc = "stepped" /\ ls.step_function = "BestImprovement"
    /\ ls.step_result # <<>>
    /\ LET nbrs == StepNeighbors
       IN \E j \in 1..Len(nbrs) :
             /\ nbrs[j] # ls.step_result[1]
             /\ Cmp(inst, Obj(nbrs[j]), Obj(ls.step_result[1])) = 0

-----------------------------------------------------------------------------
(* Specification SpecLocal: LocalSearch::solve, one action per pass of its *)
(* loop.  The clock is read at each loop test and never runs backwards.    *)

MaxIterations == 2
MaxNoImprovement == 1
MaxTimeLimit == 1

\* depot (0,0); pickups (3,0), (2,2), (3,1); dropoffs (1,2), (2,0), (0,3).
LayoutThree ==
    << <<0, 0>>, <<3, 0>>, <<2, 2>>, <<3, 1>>, <<1, 2>>, <<2, 0>>, <<0, 3>> >>

LocalCapacities == {2, 4}
LocalRhos == {0, 10}

LocalInstances ==
    {Instance(2, c, 3, r, <<1, 2, 1>>, LayoutThree) :
        c \in LocalCapacities, r \in LocalRhos}

LocalConfigs ==
    [neighborhood : Neighborhoods, step_function : StepFunctions,
     max_iterations : 0..MaxIterations, max_no_improvement : 0..MaxNoImprovement,
     time_limit_seconds : 0..MaxTimeLimit]

InitLocal ==
    /\ inst \in LocalInstances
    /\ overflow_checks \in BOOLEAN
    /\ routes = <<>>
    /\ valid = "none"
    /\ bs = NoBeam
    /\ \E config \in LocalConfigs :
          ls = [pc |-> "start", config |-> config,
                elapsed |-> 0,              \* start_time.elapsed().as_secs()
                current |-> <<>>, best_solution |-> <<>>,
                best_obj |-> [i |-> 0, n |-> 0, d |-> 1],
                iterations |-> 0, no_improvement_count |-> 0,
                trace |-> <<>>,             \* every solution that was current
                stop |-> "running"]         \* how the loop ended
    /\ sa = NoAnnealing
    /\ dc = NoConstruction /\ vn = NoVND /\ gr = NoGRASP /\ ev = NoEvaluation

LocalUnchanged == UNCHANGED <<inst, overflow_checks, routes, valid, bs, sa, dc, vn, gr, ev>>

\* The `while` condition of solve, with the clock reading t.
LoopGuardNoIterationCap(l, t) ==
    /\ l.no_improvement_count < l.config.max_no_improvement
    /\ t < l.config.time_limit_seconds
LoopGuard(l, t) ==
    /\ l.iterations < l.config.max_iterations
    /\ l.no_improvement_count < l.config.max_no_improvement
    /\ t < l.config.time_limit_seconds

\* The locals of solve after `current = neighbor` and the comparison with
\* best_obj.
AcceptNeighborKeepBest(I, l, neighbor) ==
    [l EXCEPT !.current = neighbor,
              !.iterations = @ + 1,
              !.trace = Append(@, neighbor)]
AcceptNeighbor(I, l, neighbor) ==
    LET current_obj == objective_function_value(I, neighbor)
        improved == Less(I, current_obj, l.best_obj)
    IN [l EXCEPT !.current = neighbor,
                 !.best_solution = IF improved THEN neighbor ELSE @,
                 !.best_obj = IF improved THEN current_obj ELSE @,
                 !.no_improvement_count = IF improved THEN 0 ELSE @ + 1,
                 !.iterations = @ + 1,
                 !.trace = Append(@, neighbor)]

\* construct_initial_solution and the initialisation of the locals.
LocalStart ==
    LET current == construct_solution(inst)
    IN /\ ls.pc = "start"
       /\ ls' = [ls EXCEPT !.pc = "loop",
                           !.current = current,
                           !.best_solution = current,
                           !.best_obj = objective_function_value(inst, current),
                           !.trace = <<current>>]
       /\ LocalUnchanged

\* What `self.search_step(&current)` does in a pass of the loop: it panics,
\* returns None, or returns Some(neighbor).
Outcome(panics, step) ==
    IF panics THEN [kind |-> "panic", neighbor |-> <<>>]
    ELSE IF step = <<>> THEN [kind |-> "None", neighbor |-> <<>>]
    ELSE [kind |-> "Some", neighbor |-> step[1]]

StepOutcome(I, oc, config, current) ==
    Outcome(generate_neighbors_panics(I, oc, config.neighborhood, current),
            search_step(I, oc, config.neighborhood, config.step_function, current))

\* The locals of solve after a pass in which search_step returned `step`,
\* the clock reading t at the loop test.
AfterStep(I, l, step, t) ==
    IF step.kind = "Some"
    THEN [AcceptNeighbor(I, l, step.neighbor) EXCEPT !.elapsed = t]
    ELSE [l EXCEPT !.pc = IF step.kind = "panic" THEN "panic" ELSE "done",
                   !.stop = IF step.kind = "panic" THEN "panic"
                            ELSE "no improving neighbor",
                   !.elapsed = t]

\* A pass of the loop in which search_step returns a neighbour.
LocalAccept ==
    /\ ls.pc = "loop"
    /\ \E t \in ls.elapsed..MaxTimeLimit :
          /\ LoopGuard(ls, t)
          /\ ls' = AfterStep(inst, ls,
                       StepOutcome(inst, overflow_checks, ls.config, ls.current), t)
          /\ ls'.pc = "loop"
    /\ LocalUnchanged

\* A pass of the loop in which search_step returns None: `break`.
LocalBreak ==
    /\ ls.pc = "loop"
    /\ \E t \in ls.elapsed..MaxTimeLimit :
          /\ LoopGuard(ls, t)
          /\ ls' = AfterStep(inst, ls,
                       StepOutcome(inst, overflow_checks, ls.config, ls.current), t)
          /\ ls'.pc # "loop"
    /\ LocalUnchanged

\* The loop test fails: a budget is exhausted.
LocalBudget ==
    /\ ls.pc = "loop"
    /\ \E t \in ls.elapsed..MaxTimeLimit :
          /\ ~LoopGuard(ls, t)
          /\ ls' = [ls EXCEPT !.pc = "done", !.stop = "budget", !.elapsed = t]
    /\ LocalUnchanged

NextLocal == LocalStart \/ LocalAccept \/ LocalBreak \/ LocalBudget

SpecLocal == InitLocal /\ [][NextLocal]_vars

-----------------------------------------------------------------------------
(* Claims about LocalSearch::solve.                                        *)

\* Some neighbour in the list is strictly below the solution's objective.
AnyBelow(I, neighbors, solution_obj) ==
    \E k \in 1..Len(neighbors) :
        Less(I, objective_function_value(I, neighbors[k]), solution_obj)

HasImprovingNeighbor(I, oc, neighborhood, solution) ==
    AnyBelow(I, generate_neighbors(I, oc, neighborhood, solution),
             objective_function_value(I, solution))

\* A budget of the configuration is used up when the clock reads t.
BudgetExhausted(l, t) ==
    \/ l.iterations >= l.config.max_iterations
    \/ l.no_improvement_count >= l.config.max_no_improvement
    \/ t >= l.config.time_limit_seconds

\* C7: the solution LocalSearch.solve returns has an objective less than or
\* equal to that of the initial deterministic construction and of every
\* solution that was the current solution during the run.
C7_ReturnsBestObserved ==
    ls.pc = "done" =>
        \A k \in 1..Len(ls.trace) :
            LessEq(inst, objective_function_value(inst, ls.best_solution),
                   objective_function_value(inst, ls.trace[k]))

\* A run that accepted two moves and returned.
C7_Witness ==
    /\ ls.pc = "done"
    /\ ls.iterations = 2
    /\ Len(ls.trace) = 3
    /\ ls.best_solution = ls.trace[3]
    /\ ls.trace[3] # ls.trace[1]

\* C8, at the return: at most max_iterations moves were accepted; the loop
\* ended by `break` only with every budget unexhausted at the loop test, and
\* then the returned solution has no strictly improving neighbour; it ended
\* at the loop test only with a budget exhausted.
C8_AtReturn ==
    ls.pc = "done" =>
        /\ ls.iterations <= ls.config.max_iterations
        /\ ls.iterations = Len(ls.trace) - 1
        /\ ls.stop \in {"budget", "no improving neighbor"}
        /\ ls.stop = "budget" <=> BudgetExhausted(ls, ls.elapsed)
        /\ ls.stop = "no improving neighbor" =>
               ~HasImprovingNeighbor(inst, overflow_checks, ls.config.neighborhood,
                                     ls.best_solution)

\* C8, at a pass that goes on: no budget was exhausted at the loop test, the
\* current solution had a strictly improving neighbour, and one move is
\* counted.
C8_AtPass ==
    (ls.pc = "loop" /\ ls'.pc = "loop") =>
        /\ ~BudgetExhausted(ls, ls'.elapsed)
        /\ HasImprovingNeighbor(inst, overflow_checks, ls.config.neighborhood, ls.current)
        /\ ls'.iterations = ls.iterations + 1

\* C8: LocalSearch.solve stops exactly when the step finds no strictly
\* improving neighbour or a budget (iterations, consecutive non-improving
\* steps, time) is exhausted at a step boundary; it accepts at most
\* max_iterations moves; stopped with no budget exhausted, the returned
\* solution has no strictly improving neighbour.
C8_StopsAtLocalOptimumOrBudget == [](C8_AtReturn) /\ [][C8_AtPass]_vars

\* A run that accepted a move and then stopped by `break` within its budgets.
C8_Witness ==
    /\ ls.pc = "done"
    /\ ls.stop = "no improving neighbor"
    /\ ls.iterations >= 1
    /\ ls.iterations < ls.config.max_iterations

-----------------------------------------------------------------------------
(* RandomConstruction.  The random draws are choices: the shuffle of the    *)
(* requests and, for the uniform variant, the shuffle of the vehicles.      *)

\* The load can_assign_request computes over a route.
RouteLoad(I, route) ==
    SumSeq([i \in 1..Len(route) |->
               IF route[i] = 0 THEN 0
               ELSE IF route[i] <= n_reqs(I) THEN demands(I)[route[i]]
               ELSE IF route[i] <= 2 * n_reqs(I) THEN 0 - demands(I)[route[i] - n_reqs(I)]
               ELSE 0])

can_assign_request(I, rs, vehicle_id, req_id) ==
    RouteLoad(I, rs[vehicle_id]) + demands(I)[req_id] <= cap(I)

assign_pickup_to_vehicle(I, rs, vehicle_id, req_id) ==
    [rs EXCEPT ![vehicle_id] = @ \o <<pickup_index(I, req_id)>>]
assign_request_to_vehicle(I, rs, vehicle_id, req_id) ==
    [rs EXCEPT ![vehicle_id] = @ \o <<pickup_index(I, req_id), dropoff_index(I, req_id)>>]

\* The first vehicle of the order that can take the request, else the first.
FirstAssignable(I, rs, order, req_id) ==
    IF \E k \in 1..Len(order) : can_assign_request(I, rs, order[k], req_id)
    THEN order[CHOOSE k \in 1..Len(order) :
                  /\ can_assign_request(I, rs, order[k], req_id)
                  /\ \A j \in 1..(k - 1) : ~can_assign_request(I, rs, order[j], req_id)]
    ELSE order[1]

\* assign_requests_uniform: every solution some sequence of shuffles yields.
RECURSIVE assign_requests_uniform(_, _, _)
assign_requests_uniform(I, rs, selected_requests) ==
    IF selected_requests = <<>> THEN {rs}
    ELSE UNION {assign_requests_uniform(I,
                    assign_request_to_vehicle(I, rs,
                        FirstAssignable(I, rs, vehicle_order, Head(selected_requests)),
                        Head(selected_requests)),
                    Tail(selected_requests)) :
                vehicle_order \in Arrangements(1..Len(rs), Len(rs))}

\* A vehicle's score is (4/5)^e after e assignments (1.0 for an empty route,
\* multiplied by 0.8 at each assignment); over the common denominator
\* 5^gamma its weight is 4^e * 5^(gamma - e), and cum_prob is the running sum
\* of the weights over the total.
ScoreWeight(I, e) == (4 ^ e) * (5 ^ (gamma(I) - e))

CumWeight(I, exps, vehicle_id) ==
    SumSeq([j \in 1..vehicle_id |-> ScoreWeight(I, exps[j])])

\* vehicle_probs after the stable sort by descending cum_prob.
SortedVehicles(I, exps) ==
    LET nv == Len(exps)
        Before(j, i) == \/ CumWeight(I, exps, j) > CumWeight(I, exps, i)
                        \/ CumWeight(I, exps, j) = CumWeight(I, exps, i) /\ j < i
        Rank(i) == 1 + Cardinality({j \in 1..nv : Before(j, i)})
    IN [k \in 1..nv |-> CHOOSE i \in 1..nv : Rank(i) = k]

\* assign_requests_biased: no draw is made.
RECURSIVE assign_requests_biased(_, _, _, _)
assign_requests_biased(I, rs, exps, selected_requests) ==
    IF selected_requests = <<>> THEN rs
    ELSE IF Len(rs) = 0 THEN rs
    ELSE assign_requests_biased(I,
             assign_request_to_vehicle(I, rs,
                 FirstAssignable(I, rs, SortedVehicles(I, exps), Head(selected_requests)),
                 Head(selected_requests)),
             [exps EXCEPT ![FirstAssignable(I, rs, SortedVehicles(I, exps),
                                            Head(selected_requests))] = @ + 1],
             Tail(selected_requests))

\* RandomConstruction::construct_solution: every solution it can return
\* (at least one vehicle).
random_construct_solution(I, biased) ==
    UNION {IF biased
           THEN {assign_requests_biased(I, [v \in 1..n_vehicles(I) |-> <<>>],
                                        [v \in 1..n_vehicles(I) |-> 0], selected_requests)}
           ELSE assign_requests_uniform(I, [v \in 1..n_vehicles(I) |-> <<>>],
                                        selected_requests) :
           selected_requests \in Arrangements(1..n_reqs(I), Min2(gamma(I), n_reqs(I)))}

\* `vehicle_order[0]` of assign_requests_uniform panics when a request is to
\* be assigned and there is no vehicle; the biased variant then skips the
\* request (`!vehicle_probs.is_empty()`).
random_construct_panics(I, biased) ==
    ~biased /\ n_vehicles(I) = 0 /\ Min2(gamma(I), n_reqs(I)) >= 1

\* RandomConstruction::solve: every outcome.
random_construct_run(I, biased) ==
    IF random_construct_panics(I, biased) THEN {[panic |-> TRUE, routes |-> <<>>]}
    ELSE {[panic |-> FALSE, routes |-> rs] : rs \in random_construct_solution(I, biased)}

-----------------------------------------------------------------------------
(* Specification SpecConstruct: one construction heuristic is run on an    *)
(* instance and is_valid is called on the solution it returns.             *)

MaxConstructDemand == 2

ConstructionKinds == {"Deterministic", "Uniform", "Biased"}

ConstructCapacities == 1..(MaxConstructDemand + 1)
ConstructRhos == {0, 10}

\* 2 requests, 1 vehicle, capacity 10, gamma 2, demands [3, 4], depot (0,0),
\* pickups (1,0) and (2,0), dropoffs (1,1) and (2,1).
SmallInstances == {Instance(1, 10, 2, r, <<3, 4>>, LayoutTwo) : r \in ConstructRhos}

ConstructInstances ==
    SmallInstances
    \cup {Instance(nv, c, g, r, <<d1, d2>>, LayoutTwo) :
            nv \in 0..2, c \in ConstructCapacities, g \in 0..3, r \in ConstructRhos,
            d1 \in 1..MaxConstructDemand, d2 \in 1..MaxConstructDemand}
    \cup {Instance(nv, c, g, r, <<d1, d2, 1>>, LayoutThree) :
            nv \in 1..2, c \in ConstructCapacities, g \in 2..3, r \in ConstructRhos,
            d1 \in 1..MaxConstructDemand, d2 \in 1..MaxConstructDemand}

InitConstruct ==
    /\ inst \in ConstructInstances
    /\ overflow_checks \in BOOLEAN
    /\ routes = <<>>
    /\ valid = "none"
    /\ \E kind \in ConstructionKinds : dc = [pc |-> "start", kind |-> kind, panic |-> FALSE]
    /\ bs = NoBeam /\ ls = NoLocalSearch /\ sa = NoAnnealing
    /\ vn = NoVND /\ gr = NoGRASP /\ ev = NoEvaluation

\* The solver returned (or panicked); is_valid is called on what it returned.
Constructed(run) ==
    /\ dc' = [dc EXCEPT !.pc = "done", !.panic = run.panic]
    /\ routes' = run.routes
    /\ valid' = IF run.panic THEN "none"
                ELSE is_valid_run(inst, overflow_checks, run.routes)
    /\ UNCHANGED <<inst, overflow_checks, bs, ls, sa, vn, gr, ev>>

DeterministicSolve ==
    /\ dc.pc = "start"
    /\ dc.kind = "Deterministic"
    /\ Constructed(construct_solution_run(inst))

RandomSolve ==
    /\ dc.pc = "start"
    /\ dc.kind # "Deterministic"
    /\ \E run \in random_construct_run(inst, dc.kind = "Biased") : Constructed(run)

NextConstruct == DeterministicSolve \/ RandomSolve

SpecConstruct == InitConstruct /\ [][NextConstruct]_vars

\* The instances C13 is about: at least one vehicle, gamma <= request count,
\* each of the first gamma demands <= capacity.
DetPrecondition(I) ==
    /\ n_vehicles(I) >= 1
    /\ gamma(I) <= n_reqs(I)
    /\ \A r \in 1..gamma(I) : demands(I)[r] <= cap(I)

\* Request r is in the routes as one pickup immediately followed by its
\* dropoff, and nowhere else.
ServedAdjacent(I, rs, r) ==
    /\ Occurrences(rs, pickup_index(I, r)) = 1
    /\ Occurrences(rs, dropoff_index(I, r)) = 1
    /\ \E v \in 1..Len(rs) : \E i \in 1..(Len(rs[v]) - 1) :
          rs[v][i] = pickup_index(I, r) /\ rs[v][i + 1] = dropoff_index(I, r)

\* C13: on an instance with at least one vehicle, gamma <= request count and
\* each of the first gamma demands <= capacity, deterministic construction
\* returns a solution in which each of the first gamma requests appears once
\* as a pickup immediately followed by its dropoff, the load never exceeds
\* capacity, and is_valid is true.
C13_DeterministicServesFirstGamma ==
    (dc.pc = "done" /\ dc.kind = "Deterministic" /\ DetPrecondition(inst)) =>
        /\ ~dc.panic
        /\ \A r \in 1..gamma(inst) : ServedAdjacent(inst, routes, r)
        /\ \A v \in 1..Len(routes) : \A p \in 1..Len(routes[v]) :
              PrefixLoad(inst, routes[v], p) <= cap(inst)
        /\ valid = "true"

\* The 2-request, 1-vehicle, capacity-10, demands [3,4] instance: one route
\* visits both pickups and both dropoffs.
C13_Witness ==
    /\ dc.pc = "done" /\ dc.kind = "Deterministic"
    /\ inst \in SmallInstances
    /\ routes = << <<1, 3, 2, 4>> >>
    /\ valid = "true"

-----------------------------------------------------------------------------
(* SimulatedAnnealing.  Temperatures and cooling parameters are integers,  *)
(* on which the f64 operations of the three modelled schedules are exact.  *)

\* CoolingSchedule::update_temperature (Geometric, Linear, Exponential).
update_temperature(schedule, current_temp, initial_temp, iteration) ==
    IF schedule.kind = "Geometric" THEN current_temp * schedule.alpha
    ELSE IF schedule.kind = "Linear"
         THEN (IF current_temp - schedule.beta > 0 THEN current_temp - schedule.beta ELSE 0)
    ELSE initial_temp * (schedule.alpha ^ iteration)

\* accept_solution: the answers some draw of random_value in [0, 1) gives.
\* An improvement has probability 1.0.  Otherwise the probability is
\* exp(-delta / temperature): 1.0 for delta = 0 at a positive temperature,
\* strictly between 0 and 1 for delta > 0 at a positive temperature, and 0 or
\* NaN at temperature 0, where no draw is below it.
accept_solution_at_zero_as_positive(I, current_obj, neighbor_obj, temperature) ==
    IF Less(I, neighbor_obj, current_obj) THEN {TRUE}
    ELSE IF Cmp(I, neighbor_obj, current_obj) = 0 THEN {TRUE}
    ELSE BOOLEAN
accept_solution(I, current_obj, neighbor_obj, temperature) ==
    IF Less(I, neighbor_obj, current_obj) THEN {TRUE}
    ELSE IF temperature = 0 THEN {FALSE}
    ELSE IF Cmp(I, neighbor_obj, current_obj) = 0 THEN {TRUE}
    ELSE BOOLEAN

\* generate_random_neighbor: the neighbours a drawn index can select (none
\* when the list is empty).  Routes built by the random construction and by
\* the moves pair every dropoff with an earlier pickup, so the generation
\* does not underflow.
generate_random_neighbor_any_family(I, oc, neighborhood, current) ==
    UNION {Range(generate_neighbors(I, oc, nh, current)) : nh \in Neighborhoods}
generate_random_neighbor(I, oc, neighborhood, current) ==
    Range(generate_neighbors(I, oc, neighborhood, current))

\* The locals of solve after `current = neighbor` and the update of the best
\* solution, which compares current_obj, the objective computed before the
\* assignment, with best_obj.
AnnealAcceptNeighbor(I, s, neighbor, current_obj) ==
    [s EXCEPT !.current = neighbor,
              !.best_solution = IF Less(I, current_obj, s.best_obj) THEN neighbor ELSE @,
              !.best_obj = IF Less(I, current_obj, s.best_obj) THEN current_obj ELSE @,
              !.trace = Append(@, neighbor)]

\* The end of an inner step: `iteration += 1`, the break test with the clock
\* reading t, and the end of the `for` range.
EndOfStepNoIterationBreak(s, t) ==
    [s EXCEPT !.iteration = @ + 1,
              !.inner_left = @ - 1,
              !.elapsed = t,
              !.pc = IF \/ t >= s.config.time_limit_seconds
                        \/ s.inner_left - 1 = 0
                     THEN "cool" ELSE "inner"]
EndOfStep(s, t) ==
    [s EXCEPT !.iteration = @ + 1,
              !.inner_left = @ - 1,
              !.elapsed = t,
              !.pc = IF \/ s.iteration + 1 >= s.config.max_iterations
                        \/ t >= s.config.time_limit_seconds
                        \/ s.inner_left - 1 = 0
                     THEN "cool" ELSE "inner"]

-----------------------------------------------------------------------------
(* Specification SpecAnneal: SimulatedAnnealing::solve, one action per     *)
(* loop test, inner step and cooling.                                      *)

MaxAnnealIterations == 2
MaxPerTemperature == 2
MaxTemperature == 1
MaxAnnealTime == 1

AnnealSchedules ==
    {[kind |-> "Geometric", alpha |-> 1],
     [kind |-> "Linear", beta |-> 1],
     [kind |-> "Linear", beta |-> -1],
     [kind |-> "Exponential", alpha |-> 0]}

AnnealRhos == {10}

AnnealInstances == {Instance(2, 2, 2, r, <<1, 1>>, LayoutSpread) : r \in AnnealRhos}

AnnealConfigs ==
    [initial_temperature : 0..MaxTemperature,
     final_temperature : {-1, 0},
     cooling_schedule : AnnealSchedules,
     max_iterations : 0..MaxAnnealIterations,
     iterations_per_temperature : 1..MaxPerTemperature,
     neighborhood : Neighborhoods,
     time_limit_seconds : 1..(MaxAnnealTime + 1),
     biased_construction : BOOLEAN]

InitAnneal ==
    /\ inst \in AnnealInstances
    /\ overflow_checks \in BOOLEAN
    /\ routes = <<>>
    /\ valid = "none"
    /\ bs = NoBeam
    /\ ls = NoLocalSearch
    /\ dc = NoConstruction /\ vn = NoVND /\ gr = NoGRASP /\ ev = NoEvaluation
    /\ \E config \in AnnealConfigs :
          sa = [pc |-> "start", config |-> config,
                elapsed |-> 0,              \* start_time.elapsed().as_secs()
                current |-> <<>>, best_solution |-> <<>>,
                best_obj |-> [i |-> 0, n |-> 0, d |-> 1],
                temperature |-> config.initial_temperature,
                iteration |-> 0, temp_iteration |-> 0,
                inner_left |-> 0,           \* passes left in the `for` range
                trace |-> <<>>,             \* every solution that was current
                drawn |-> <<>>,             \* the neighbour of the last inner step
                accepted |-> FALSE]         \* accept_solution in the last inner step

AnnealUnchanged == UNCHANGED <<inst, overflow_checks, routes, valid, bs, ls, dc, vn, gr, ev>>

\* The `while` condition of solve, with the clock reading t.
AnnealGuard(s, t) ==
    /\ s.temperature > s.config.final_temperature
    /\ s.iteration < s.config.max_iterations
    /\ t < s.config.time_limit_seconds

\* construct_initial_solution and the initialisation of the locals.
AnnealStart ==
    /\ sa.pc = "start"
    /\ \E current \in random_construct_solution(inst, sa.config.biased_construction) :
          sa' = [sa EXCEPT !.pc = "outer",
                           !.current = current,
                           !.best_solution = current,
                           !.best_obj = objective_function_value(inst, current),
                           !.trace = <<current>>]
    /\ AnnealUnchanged

\* The loop test holds: a temperature level begins.
AnnealEnter ==
    /\ sa.pc = "outer"
    /\ \E t \in sa.elapsed..MaxAnnealTime :
          /\ AnnealGuard(sa, t)
          /\ sa' = [sa EXCEPT !.pc = "inner", !.elapsed = t,
                              !.inner_left = sa.config.iterations_per_temperature]
    /\ AnnealUnchanged

\* The loop test fails: solve returns best_solution.
AnnealReturn ==
    /\ sa.pc = "outer"
    /\ \E t \in sa.elapsed..MaxAnnealTime :
          /\ ~AnnealGuard(sa, t)
          /\ sa' = [sa EXCEPT !.pc = "done", !.elapsed = t]
    /\ AnnealUnchanged

\* An inner step in which generate_random_neighbor returns None.
AnnealNoNeighbor ==
    /\ sa.pc = "inner"
    /\ generate_random_neighbor(inst, overflow_checks, sa.config.neighborhood,
                                sa.current) = {}
    /\ \E t \in sa.elapsed..MaxAnnealTime :
          sa' = [EndOfStep(sa, t) EXCEPT !.drawn = <<>>, !.accepted = FALSE]
    /\ AnnealUnchanged

\* An inner step whose neighbour is accepted.
AnnealAccept ==
    /\ sa.pc = "inner"
    /\ \E neighbor \in generate_random_neighbor(inst, overflow_checks,
                                                 sa.config.neighborhood, sa.current) :
          /\ TRUE \in accept_solution(inst, objective_function_value(inst, sa.current),
                                       objective_function_value(inst, neighbor),
                                       sa.temperature)
          /\ \E t \in sa.elapsed..MaxAnnealTime :
                sa' = [EndOfStep(AnnealAcceptNeighbor(inst, sa, neighbor,
                                     objective_function_value(inst, sa.current)), t)
                       EXCEPT !.drawn = <<neighbor>>, !.accepted = TRUE]
    /\ AnnealUnchanged

\* An inner step whose neighbour is rejected.
AnnealReject ==
    /\ sa.pc = "inner"
    /\ \E neighbor \in generate_random_neighbor(inst, overflow_checks,
                                                 sa.config.neighborhood, sa.current) :
          /\ FALSE \in accept_solution(inst, objective_function_value(inst, sa.current),
                                        objective_function_value(inst, neighbor),
                                        sa.temperature)
          /\ \E t \in sa.elapsed..MaxAnnealTime :
                sa' = [EndOfStep(sa, t) EXCEPT !.drawn = <<neighbor>>, !.accepted = FALSE]
    /\ AnnealUnchanged

\* After the `for` loop: the temperature is cooled.
AnnealCool ==
    /\ sa.pc = "cool"
    /\ sa' = [sa EXCEPT !.pc = "outer",
                        !.temp_iteration = @ + 1,
                        !.temperature =
                            update_temperature(sa.config.cooling_schedule, @,
                                sa.config.initial_temperature, sa.temp_iteration + 1)]
    /\ AnnealUnchanged

NextAnneal ==
    \/ AnnealStart \/ AnnealEnter \/ AnnealReturn
    \/ AnnealNoNeighbor \/ AnnealAccept \/ AnnealReject \/ AnnealCool

SpecAnneal == InitAnneal /\ [][NextAnneal]_vars

\* C2: the solution SimulatedAnnealing.solve returns has an objective less
\* than or equal to the objective of the initial construction and of every
\* neighbour that was accepted as the current solution.
C2_ReturnsBestEver ==
    sa.pc = "done" =>
        \A k \in 1..Len(sa.trace) :
            LessEq(inst, objective_function_value(inst, sa.best_solution),
                   objective_function_value(inst, sa.trace[k]))

\* No accepted neighbour has a greater objective than the solution it
\* replaced, and the returned solution is no worse than the initial one.
NeverWorsens ==
    /\ \A k \in 1..(Len(sa.trace) - 1) :
          LessEq(inst, objective_function_value(inst, sa.trace[k + 1]),
                       objective_function_value(inst, sa.trace[k]))
    /\ sa.pc = "done" =>
          LessEq(inst, objective_function_value(inst, sa.best_solution),
                       objective_function_value(inst, sa.trace[1]))

\* The schedule's parameter is not negative: cooling never raises a
\* temperature of 0.
NeverHeats(schedule) ==
    IF schedule.kind = "Linear" THEN schedule.beta >= 0 ELSE schedule.alpha >= 0

-----------------------------------------------------------------------------
(* VND.                                                                    *)

\* VND::explore_neighborhood: None for an empty neighbourhood, else the first
\* neighbour of least objective if it is strictly below the current one.
explore_neighborhood_first_improving(I, oc, current, neighborhood) ==
    Outcome(generate_neighbors_panics(I, oc, neighborhood, current),
            StepAmong(I, "FirstImprovement",
                      generate_neighbors(I, oc, neighborhood, current),
                      objective_function_value(I, current)))
explore_neighborhood(I, oc, current, neighborhood) ==
    Outcome(generate_neighbors_panics(I, oc, neighborhood, current),
            StepAmong(I, "BestImprovement",
                      generate_neighbors(I, oc, neighborhood, current),
                      objective_function_value(I, current)))

\* `for &neighborhood in &self.neighborhoods`: the first neighbourhood whose
\* exploration returns a solution ends the scan (`break`).
RECURSIVE ScanFrom(_, _, _, _, _)
RECURSIVE ScanNext(_, _, _, _, _, _)
ScanNext(I, oc, current, neighborhoods, i, explored) ==
    IF explored.kind = "None" THEN ScanFrom(I, oc, current, neighborhoods, i + 1)
    ELSE explored
ScanFrom(I, oc, current, neighborhoods, i) ==
    IF i > Len(neighborhoods) THEN [kind |-> "None", neighbor |-> <<>>]
    ELSE ScanNext(I, oc, current, neighborhoods, i,
                  explore_neighborhood(I, oc, current, neighborhoods[i]))

\* The `while` condition of VND::solve.
VndGuardNoCap(v) == TRUE
VndGuard(v) == v.iterations < v.config.max_iterations

\* The locals of solve after a scan that returned better_solution.
VndAccept(I, v, better_solution) ==
    LET better_obj == objective_function_value(I, better_solution)
        improved == Less(I, better_obj, v.best_obj)
    IN [v EXCEPT !.current = better_solution,
                 !.best_solution = IF improved THEN better_solution ELSE @,
                 !.best_obj = IF improved THEN better_obj ELSE @,
                 !.iterations = @ + 1]

\* The locals of solve after a pass of the loop with the given scan result.
VndAfterScan(I, v, scan) ==
    IF scan.kind = "Some" THEN VndAccept(I, v, scan.neighbor)
    ELSE [v EXCEPT !.pc = IF scan.kind = "panic" THEN "panic" ELSE "done",
                   !.stop = IF scan.kind = "panic" THEN "panic" ELSE "no improvement"]

-----------------------------------------------------------------------------
(* Specification SpecVND: VND::solve, one action per pass of its loop.     *)

MaxVndIterations == 2
MaxNeighborhoods == 2

VndCapacities == {1, 2}

VndInstances == {Instance(2, c, 3, 10, <<1, 2, 1>>, LayoutThree) : c \in VndCapacities}

VndConfigs ==
    [neighborhoods : SeqsUpTo(Neighborhoods, MaxNeighborhoods),
     max_iterations : 0..MaxVndIterations,
     biased_construction : BOOLEAN]

InitVND ==
    /\ inst \in VndInstances
    /\ overflow_checks \in BOOLEAN
    /\ routes = <<>>
    /\ valid = "none"
    /\ bs = NoBeam /\ ls = NoLocalSearch /\ sa = NoAnnealing
    /\ dc = NoConstruction /\ gr = NoGRASP /\ ev = NoEvaluation
    /\ \E config \in VndConfigs :
          vn = [pc |-> "start", config |-> config,
                current |-> <<>>, best_solution |-> <<>>,
                best_obj |-> [i |-> 0, n |-> 0, d |-> 1],
                iterations |-> 0,
                initial |-> <<>>,       \* the initial construction
                stop |-> "running"]

VndUnchanged == UNCHANGED <<inst, overflow_checks, routes, valid, bs, ls, sa, dc, gr, ev>>

\* construct_initial_solution and the initialisation of the locals.
VndStart ==
    /\ vn.pc = "start"
    /\ \E current \in random_construct_solution(inst, vn.config.biased_construction) :
          vn' = [vn EXCEPT !.pc = "loop",
                           !.current = current,
                           !.best_solution = current,
                           !.best_obj = objective_function_value(inst, current),
                           !.initial = current]
    /\ VndUnchanged

\* A pass of the loop whose scan finds an improving neighbour.
VndImprove ==
    /\ vn.pc = "loop"
    /\ VndGuard(vn)
    /\ vn' = VndAfterScan(inst, vn, ScanFrom(inst, overflow_checks, vn.current,
                                              vn.config.neighborhoods, 1))
    /\ vn'.pc = "loop"
    /\ VndUnchanged

\* A pass of the loop whose scan finds no improvement: `break`.
VndBreak ==
    /\ vn.pc = "loop"
    /\ VndGuard(vn)
    /\ vn' = VndAfterScan(inst, vn, ScanFrom(inst, overflow_checks, vn.current,
                                              vn.config.neighborhoods, 1))
    /\ vn'.pc # "loop"
    /\ VndUnchanged

\* The loop test fails: max_iterations moves were accepted.
VndCap ==
    /\ vn.pc = "loop"
    /\ ~VndGuard(vn)
    /\ vn' = [vn EXCEPT !.pc = "done", !.stop = "iteration cap"]
    /\ VndUnchanged

NextVND == VndStart \/ VndImprove \/ VndBreak \/ VndCap

SpecVND == InitVND /\ [][NextVND]_vars

\* Some configured neighbourhood holds a valid neighbour strictly below solution.
VndCanImprove(solution) ==
    \E i \in 1..Len(vn.config.neighborhoods) :
        HasImprovingNeighbor(inst, overflow_checks, vn.config.neighborhoods[i], solution)

\* At the return of VND::solve.
VndStopsRight ==
    vn.pc = "done" =>
        /\ vn.iterations <= vn.config.max_iterations
        /\ vn.iterations = vn.config.max_iterations \/ ~VndCanImprove(vn.current)
        /\ vn.iterations < vn.config.max_iterations => ~VndCanImprove(vn.best_solution)
        /\ LessEq(inst, objective_function_value(inst, vn.best_solution),
                  objective_function_value(inst, vn.initial))

\* A pass of the loop that does not stop.
VndContinuesRight ==
    (vn.pc = "loop" /\ vn'.pc = "loop") =>
        /\ vn.iterations < vn.config.max_iterations
        /\ VndCanImprove(vn.current)
        /\ vn'.iterations = vn.iterations + 1

\* C17: VND::solve stops exactly when a full scan of the configured
\* neighbourhoods finds no strictly improving neighbour or when max_iterations
\* moves have been accepted (it neither panics nor stops early, and a pass
\* that goes on accepted one more move); the returned solution's objective
\* is <= the initial construction's, and when it stops before the cap the
\* returned solution has no strictly improving valid neighbour in any
\* configured neighbourhood.
C17_VndStopsAtLocalOptimumOrCap ==
    /\ [](vn.pc # "panic")
    /\ []VndStopsRight
    /\ [][VndContinuesRight]_vars

C17_Witness ==
    /\ vn.pc = "done"
    /\ vn.stop = "no improvement"
    /\ vn.iterations = 1
    /\ vn.config.max_iterations = 2
    /\ Len(vn.config.neighborhoods) = 2
    /\ vn.best_solution # vn.initial
    /\ is_valid(inst, overflow_checks, vn.best_solution)

-----------------------------------------------------------------------------
(* GRASP: the local search strategies.  Each returns the record            *)
(* [panic, solution] of its outcome.                                       *)

\* The neighbourhood list of vnd_search and composite_neighborhood_search.
GraspNeighborhoods == <<"Relocate", "Exchange", "TwoOpt">>

\* single_neighborhood_search: GRASP::explore_neighborhood's body (the same
\* as VND::explore_neighborhood) repeated while it finds a better neighbour.
RECURSIVE single_neighborhood_search(_, _, _, _)
RECURSIVE SingleAfter(_, _, _, _, _)
SingleAfter(I, oc, current, neighborhood, step) ==
    IF step.kind = "Some"
    THEN single_neighborhood_search(I, oc, step.neighbor, neighborhood)
    ELSE [panic |-> step.kind = "panic", solution |-> current]
single_neighborhood_search(I, oc, solution, neighborhood) ==
    SingleAfter(I, oc, solution, neighborhood,
                explore_neighborhood(I, oc, solution, neighborhood))

\* vnd_search_with_initial: the loop of VND::solve from a given solution,
\* capped by local_search_max_iterations.
RECURSIVE VndRun(_, _, _)
VndRun(I, oc, v) ==
    IF v.pc # "loop" \/ ~(v.iterations < v.config.max_iterations) THEN v
    ELSE VndRun(I, oc, VndAfterScan(I, v, ScanFrom(I, oc, v.current,
                                                   v.config.neighborhoods, 1)))

VndDone(v) == [panic |-> v.pc = "panic", solution |-> v.best_solution]

vnd_search_with_initial(I, oc, current, neighborhoods, local_search_max_iterations) ==
    VndDone(VndRun(I, oc,
        [pc |-> "loop", stop |-> "running",
         config |-> [neighborhoods |-> neighborhoods,
                     max_iterations |-> local_search_max_iterations],
         current |-> current, best_solution |-> current,
         best_obj |-> objective_function_value(I, current),
         iterations |-> 0]))

\* all_neighbors of composite_neighborhood_search.
AllNeighbors(I, oc, current) ==
    generate_neighbors(I, oc, GraspNeighborhoods[1], current)
    \o generate_neighbors(I, oc, GraspNeighborhoods[2], current)
    \o generate_neighbors(I, oc, GraspNeighborhoods[3], current)

AllNeighborsPanics(I, oc, current) ==
    \E i \in 1..Len(GraspNeighborhoods) :
        generate_neighbors_panics(I, oc, GraspNeighborhoods[i], current)

RECURSIVE composite_neighborhood_search(_, _, _)
RECURSIVE CompositeAfter(_, _, _, _)
CompositeAfter(I, oc, current, step) ==
    IF step.kind = "Some" THEN composite_neighborhood_search(I, oc, step.neighbor)
    ELSE [panic |-> step.kind = "panic", solution |-> current]
composite_neighborhood_search(I, oc, solution) ==
    CompositeAfter(I, oc, solution,
        Outcome(AllNeighborsPanics(I, oc, solution),
                StepAmong(I, "BestImprovement", AllNeighbors(I, oc, solution),
                          objective_function_value(I, solution))))

local_search_capped(I, oc, config, solution) ==
    IF config.local_search_max_iterations = 0
    THEN [panic |-> FALSE, solution |-> solution]
    ELSE IF config.local_search_strategy = "VND"
    THEN vnd_search_with_initial(I, oc, solution, GraspNeighborhoods,
                                 config.local_search_max_iterations)
    ELSE IF config.local_search_strategy = "CompositeNeighborhood"
    THEN composite_neighborhood_search(I, oc, solution)
    ELSE single_neighborhood_search(I, oc, solution, config.local_search_strategy)

\* GRASP::local_search.
local_search(I, oc, config, solution) ==
    IF config.local_search_strategy = "VND"
    THEN vnd_search_with_initial(I, oc, solution, GraspNeighborhoods,
                                 config.local_search_max_iterations)
    ELSE IF config.local_search_strategy = "CompositeNeighborhood"
    THEN composite_neighborhood_search(I, oc, solution)
    ELSE single_neighborhood_search(I, oc, solution, config.local_search_strategy)

-----------------------------------------------------------------------------
(* GRASP::solve.                                                           *)

\* The `while` condition of solve at clock reading t.
GraspGuard(g, t) ==
    /\ g.iteration < g.config.max_iterations
    /\ t < g.config.time_limit_seconds

\* `if !initial_solution.is_valid() { iteration += 1; continue; }`
GraspSkipsNothing(I, oc, initial) == FALSE
GraspSkips(I, oc, initial) == ~is_valid(I, oc, initial)

\* `if obj < best_obj`, best_obj being INFINITY until a solution is retained.
GraspAlwaysBetter(I, g, obj) == TRUE
GraspBetter(I, g, obj) == g.best_solution = <<>> \/ Less(I, obj, g.best_obj)

\* The locals of solve after local search returned improved for initial.
GraspRetain(I, oc, g, t, initial, improved) ==
    IF improved.panic THEN [g EXCEPT !.pc = "panic", !.elapsed = t]
    ELSE LET obj == objective_function_value(I, improved.solution)
             better == is_valid(I, oc, improved.solution) /\ GraspBetter(I, g, obj)
         IN [g EXCEPT !.elapsed = t,
                      !.iteration = @ + 1,
                      !.best_solution = IF better THEN <<improved.solution>> ELSE @,
                      !.best_obj = IF better THEN obj ELSE @,
                      !.constructions = Append(@,
                          [initial |-> initial, searched |-> TRUE,
                           improved |-> improved.solution])]

\* One pass of the loop of solve whose construction ran as `run`.
GraspPass(I, oc, g, t, run) ==
    IF run.panic THEN [g EXCEPT !.pc = "panic", !.elapsed = t]
    ELSE IF GraspSkips(I, oc, run.routes)
    THEN [g EXCEPT !.elapsed = t,
                   !.iteration = @ + 1,
                   !.constructions = Append(@,
                       [initial |-> run.routes, searched |-> FALSE,
                        improved |-> run.routes])]
    ELSE GraspRetain(I, oc, g, t, run.routes,
                     local_search(I, oc, g.config, run.routes))

\* `best_solution.unwrap_or_else(|| RandomConstruction::new(.., true).solve())`
GraspResults(I, g) ==
    IF g.best_solution # <<>> THEN {g.best_solution[1]}
    ELSE random_construct_solution(I, TRUE)

-----------------------------------------------------------------------------
(* Specification SpecGrasp: GRASP::solve, one action per pass of its loop. *)

MaxGraspIterations == 2
MaxGraspTime == 1
MaxGraspLocalIterations == 1

LocalSearchStrategies == Neighborhoods \cup {"VND", "CompositeNeighborhood"}

GraspInstances ==
    {Instance(2, 1, 1, 10, <<1, 2>>, LayoutSpread),
     Instance(2, 2, 2, 0, <<1, 1>>, LayoutSpread),
     Instance(0, 1, 1, 10, <<1, 1>>, LayoutTwo)}

GraspConfigs ==
    [max_iterations : 0..MaxGraspIterations,
     time_limit_seconds : 0..MaxGraspTime,
     local_search_strategy : LocalSearchStrategies,
     biased_construction : BOOLEAN,
     local_search_max_iterations : 0..MaxGraspLocalIterations]

InitGrasp ==
    /\ inst \in GraspInstances
    /\ overflow_checks \in BOOLEAN
    /\ routes = <<>>
    /\ valid = "none"
    /\ bs = NoBeam /\ ls = NoLocalSearch /\ sa = NoAnnealing
    /\ dc = NoConstruction /\ vn = NoVND /\ ev = NoEvaluation
    /\ \E config \in GraspConfigs :
          gr = [pc |-> "loop", config |-> config,
                iteration |-> 0,
                elapsed |-> 0,          \* the last reading of start_time.elapsed()
                best_solution |-> <<>>,
                best_obj |-> [i |-> 0, n |-> 0, d |-> 1],
                constructions |-> <<>>, \* what each pass built and did with it
                fallback |-> FALSE]     \* the result is the fallback construction

GraspUnchanged == UNCHANGED <<inst, overflow_checks, valid, bs, ls, sa, dc, vn, ev>>

\* A pass whose construction fails is_valid.
GraspSkip ==
    /\ gr.pc = "loop"
    /\ \E t \in gr.elapsed..MaxGraspTime :
          /\ GraspGuard(gr, t)
          /\ \E run \in random_construct_run(inst, gr.config.biased_construction) :
                gr' = GraspPass(inst, overflow_checks, gr, t, run)
    /\ gr'.pc = "loop"
    /\ ~Last(gr'.constructions).searched
    /\ UNCHANGED routes
    /\ GraspUnchanged

\* A pass whose construction is handed to local search.
GraspImprove ==
    /\ gr.pc = "loop"
    /\ \E t \in gr.elapsed..MaxGraspTime :
          /\ GraspGuard(gr, t)
          /\ \E run \in random_construct_run(inst, gr.config.biased_construction) :
                gr' = GraspPass(inst, overflow_checks, gr, t, run)
    /\ gr'.pc = "loop"
    /\ Last(gr'.constructions).searched
    /\ UNCHANGED routes
    /\ GraspUnchanged

\* A pass that panics.
GraspPanic ==
    /\ gr.pc = "loop"
    /\ \E t \in gr.elapsed..MaxGraspTime :
          /\ GraspGuard(gr, t)
          /\ \E run \in random_construct_run(inst, gr.config.biased_construction) :
                gr' = GraspPass(inst, overflow_checks, gr, t, run)
    /\ gr'.pc = "panic"
    /\ UNCHANGED routes
    /\ GraspUnchanged

\* The loop test fails: solve returns the retained solution or the fallback.
GraspReturn ==
    /\ gr.pc = "loop"
    /\ \E t \in gr.elapsed..MaxGraspTime :
          /\ ~GraspGuard(gr, t)
          /\ gr' = [gr EXCEPT !.pc = "done", !.elapsed = t,
                              !.fallback = gr.best_solution = <<>>]
    /\ routes' \in GraspResults(inst, gr)
    /\ GraspUnchanged

NextGrasp == GraspSkip \/ GraspImprove \/ GraspPanic \/ GraspReturn

SpecGrasp == InitGrasp /\ [][NextGrasp]_vars

\* The passes of the loop so far.
Passes == 1..Len(gr.constructions)

\* C15: GRASP::solve retains the best valid improved solution: when at least
\* one pass built a valid construction, the returned solution is valid, is
\* the improved solution of one of the passes, and its objective is the
\* least among the improved solutions of the passes that started from a
\* valid construction.
C15_GraspReturnsBestImproved ==
    (gr.pc = "done" /\ \E i \in Passes :
                          is_valid(inst, overflow_checks, gr.constructions[i].initial)) =>
        /\ is_valid(inst, overflow_checks, routes)
        /\ \E i \in Passes : /\ gr.constructions[i].searched
                              /\ routes = gr.constructions[i].improved
        /\ \A i \in Passes :
              is_valid(inst, overflow_checks, gr.constructions[i].initial) =>
                  LessEq(inst, objective_function_value(inst, routes),
                         objective_function_value(inst, gr.constructions[i].improved))

C15_Witness ==
    /\ gr.pc = "done"
    /\ Len(gr.constructions) = 2
    /\ gr.constructions[1].searched /\ gr.constructions[2].searched
    /\ \E i \in Passes : gr.constructions[i].improved # gr.constructions[i].initial
    /\ Less(inst, objective_function_value(inst, gr.constructions[1].improved),
             objective_function_value(inst, gr.constructions[2].improved))
    /\ routes = gr.constructions[1].improved

\* What solve holds of the constructions that failed is_valid.
InvalidSkipped ==
    /\ \A i \in Passes :
          ~is_valid(inst, overflow_checks, gr.constructions[i].initial) =>
              ~gr.constructions[i].searched
    /\ gr.best_solution # <<>> =>
          \E i \in Passes : /\ is_valid(inst, overflow_checks, gr.constructions[i].initial)
                              /\ gr.best_solution[1] = gr.constructions[i].improved

\* A pass whose construction failed is_valid leaves the retained best alone.
SkipKeepsBest ==
    (Len(gr'.constructions) > Len(gr.constructions)
     /\ ~is_valid(inst, overflow_checks, Last(gr'.constructions).initial)) =>
        /\ gr'.best_solution = gr.best_solution
        /\ gr'.best_obj = gr.best_obj

\* No pass yielded a valid solution.
NothingValid ==
    \A i \in Passes : \/ ~gr.constructions[i].searched
                        \/ ~is_valid(inst, overflow_checks, gr.constructions[i].improved)

FallbackUnimproved ==
    (gr.pc = "done" /\ NothingValid) =>
        /\ gr.fallback
        /\ routes \in random_construct_solution(inst, TRUE)

\* C16: in GRASP::solve a construction on which is_valid is false is skipped:
\* it is never passed to local search and never becomes the retained best;
\* when no pass yields a valid solution (max_iterations = 0 and an exhausted
\* time budget included) solve returns one fresh randomized construction to
\* which no local search is applied.
C16_GraspSkipsInvalidAndFallsBack ==
    /\ []InvalidSkipped
    /\ [][SkipKeepsBest]_vars
    /\ []FallbackUnimproved

C16_Witness ==
    /\ gr.pc = "done"
    /\ gr.fallback
    /\ Len(gr.constructions) = 2
    /\ ~gr.constructions[1].searched /\ ~gr.constructions[2].searched
    /\ \E v \in 1..Len(routes) : routes[v] # <<>>
    /\ \E n \in Neighborhoods : generate_neighbors(inst, overflow_checks, n, routes) # <<>>

\* C18: with zero vehicles and gamma >= 1 a solver entry point still returns
\* a Solution: the deterministic, uniform and biased constructions end
\* without a panic (no out-of-bounds route access).
C18_ZeroVehiclesNoPanic ==
    (dc.pc = "done" /\ n_vehicles(inst) = 0 /\ gamma(inst) >= 1) => ~dc.panic

-----------------------------------------------------------------------------
(* Specification SpecEvaluate: a Solution is built, its evaluator methods  *)
(* are called, a depot node is put at an end of a route and they are       *)
(* called again.                                                           *)

MaxEvalRoutes == 3

EvalInstances ==
    {Instance(2, 2, 2, 1, <<1, 1>>, locs) : locs \in {LayoutTwo, LayoutSpread}}

\* Any number of routes up to MaxEvalRoutes, short enough to enumerate.
EvalRoutes(I) ==
    {<<>>}
    \cup {<<a>> : a \in SeqsUpTo(Nodes(I), 2)}
    \cup RoutePairs(I, 2)
    \cup UNION {[1..k -> SeqsUpTo(Nodes(I), 1)] : k \in 3..MaxEvalRoutes}

Evaluation(I, rs, pc) ==
    [pc |-> pc,
     distances |-> get_route_distances(I, rs),
     total_travel_distance |-> total_travel_distance(I, rs),
     jain_fairness |-> jain_fairness(I, rs)]

InitEvaluate ==
    /\ inst \in EvalInstances
    /\ overflow_checks \in BOOLEAN
    /\ routes \in EvalRoutes(inst)
    /\ valid = "none"
    /\ bs = NoBeam /\ ls = NoLocalSearch /\ sa = NoAnnealing
    /\ dc = NoConstruction /\ vn = NoVND /\ gr = NoGRASP
    /\ ev = [pc |-> "start"]

EvalUnchanged == UNCHANGED <<inst, overflow_checks, valid, bs, ls, sa, dc, vn, gr>>

\* get_route_distances, total_travel_distance and jain_fairness are called.
Evaluate ==
    /\ ev.pc = "start"
    /\ ev' = Evaluation(inst, routes, "evaluated")
    /\ UNCHANGED routes
    /\ EvalUnchanged

\* Vec::insert(0, 0) on a route, then the methods are called again.
PadLeading ==
    /\ ev.pc = "evaluated"
    /\ \E v \in 1..Len(routes) :
          routes' = [routes EXCEPT ![v] = <<0>> \o @]
    /\ ev' = Evaluation(inst, routes', "padded")
    /\ EvalUnchanged

\* Vec::push(0) on a route, then the methods are called again.
PadTrailing ==
    /\ ev.pc = "evaluated"
    /\ \E v \in 1..Len(routes) :
          routes' = [routes EXCEPT ![v] = @ \o <<0>>]
    /\ ev' = Evaluation(inst, routes', "padded")
    /\ EvalUnchanged

NextEvaluate == Evaluate \/ PadLeading \/ PadTrailing

SpecEvaluate == InitEvaluate /\ [][NextEvaluate]_vars

Evaluated == ev.pc \in {"evaluated", "padded"}

AllEqual(distances) ==
    \A a \in 1..Len(distances) : \A b \in 1..Len(distances) : distances[a] = distances[b]

SumOfSquares(distances) ==
    SumSeq([v \in 1..Len(distances) |-> distances[v] * distances[v]])

\* C19: for route distances d_1..d_k (non-negative integers) jain_fairness is
\* a quotient with a non-zero divisor that lies in (0, 1], with
\* 0 < (sum d_i)^2 <= k * sum d_i^2 whenever sum d_i^2 > 0, and it is exactly
\* 1 when all the distances are equal, all zero included.
C19_JainFairnessInUnitInterval ==
    Evaluated =>
        /\ \A v \in 1..Len(ev.distances) : ev.distances[v] >= 0
        /\ ev.jain_fairness.d > 0
        /\ 0 < ev.jain_fairness.n
        /\ ev.jain_fairness.n <= ev.jain_fairness.d
        /\ SumOfSquares(ev.distances) > 0 =>
              /\ 0 < SumSeq(ev.distances) * SumSeq(ev.distances)
              /\ SumSeq(ev.distances) * SumSeq(ev.distances)
                    <= Len(ev.distances) * SumOfSquares(ev.distances)
              /\ ev.jain_fairness.n * Len(ev.distances) * SumOfSquares(ev.distances)
                    = ev.jain_fairness.d * SumSeq(ev.distances) * SumSeq(ev.distances)
        /\ AllEqual(ev.distances) => ev.jain_fairness.n = ev.jain_fairness.d

C19_Witness ==
    /\ ev.pc = "evaluated"
    /\ Len(ev.distances) = 3
    /\ \E v \in 1..3 : ev.distances[v] = 0
    /\ ev.jain_fairness.n < ev.jain_fairness.d
    /\ ev.jain_fairness.n > 0

\* The three parts of a route's distance.
DepotToFirst(I, route) ==
    IF route = <<>> \/ Head(route) = 0 THEN 0 ELSE Dist(I, 0, Head(route))
BetweenStops(I, route) ==
    SumSeq([i \in 1..(Len(route) - 1) |-> Dist(I, route[i], route[i + 1])])
LastToDepot(I, route) ==
    IF route = <<>> \/ Last(route) = 0 THEN 0 ELSE Dist(I, Last(route), 0)

TotalIsSumOfLegs ==
    Evaluated =>
        /\ ev.total_travel_distance =
              SumSeq([v \in 1..Len(routes) |->
                        DepotToFirst(inst, routes[v]) + BetweenStops(inst, routes[v])
                        + LastToDepot(inst, routes[v])])
        /\ \A v \in 1..Len(routes) : routes[v] = <<>> => ev.distances[v] = 0

PaddingKeepsTotal ==
    (ev.pc = "evaluated" /\ ev'.pc = "padded") =>
        ev'.total_travel_distance = ev.total_travel_distance

\* C20: total_travel_distance is the sum over the vehicles of the distance
\* depot -> first stop (0 for a route that is empty or starts at the depot),
\* the distances between consecutive stops and the distance last stop ->
\* depot (0 for a route that is empty or ends at the depot); an empty route
\* contributes 0, and a depot node added in front of or behind a route does
\* not change the total.
C20_TotalTravelDistance ==
    /\ []TotalIsSumOfLegs
    /\ [][PaddingKeepsTotal]_vars

C20_Witness ==
    /\ ev.pc = "padded"
    /\ ev.total_travel_distance > 0
    /\ \E v \in 1..Len(routes) : routes[v] = <<>>
    /\ \E v \in 1..Len(routes) :
          /\ Len(routes[v]) = 3
          /\ routes[v][1] # 0 /\ routes[v][2] # 0 /\ routes[v][3] = 0

-----------------------------------------------------------------------------
(* Claims about the loop of SimulatedAnnealing::solve, under SpecAnneal.   *)

\* The step counter stays within max_iterations, and an inner step is only
\* taken with the three conditions of the loop true at their last test.
AnnealWithinBudget ==
    sa.pc # "off" =>
        /\ sa.iteration <= sa.config.max_iterations
        /\ sa.pc = "inner" =>
              /\ sa.temperature > sa.config.final_temperature
              /\ sa.iteration < sa.config.max_iterations
              /\ sa.elapsed < sa.config.time_limit_seconds

\* A temperature level begins only with the loop condition true.
AnnealEntersOnGuard ==
    (sa.pc = "outer" /\ sa'.pc = "inner") =>
        /\ sa.temperature > sa.config.final_temperature
        /\ sa.iteration < sa.config.max_iterations
        /\ sa'.elapsed < sa.config.time_limit_seconds
        /\ sa'.iteration = sa.iteration
        /\ sa'.temp_iteration = sa.temp_iteration
        /\ sa'.temperature = sa.temperature

\* An inner step counts one, with or without a neighbour, accepted or not.
AnnealStepCountsOne ==
    sa.pc = "inner" =>
        /\ sa'.iteration = sa.iteration + 1
        /\ sa'.temp_iteration = sa.temp_iteration
        /\ sa'.temperature = sa.temperature
        /\ sa'.pc \in {"inner", "cool"}

\* The temperature is updated once after a level, and only there.
AnnealCoolsOncePerLevel ==
    /\ sa.pc = "cool" =>
          /\ sa'.pc = "outer"
          /\ sa'.temp_iteration = sa.temp_iteration + 1
          /\ sa'.iteration = sa.iteration
          /\ sa'.temperature =
                update_temperature(sa.config.cooling_schedule, sa.temperature,
                                   sa.config.initial_temperature, sa'.temp_iteration)
    /\ (sa.pc \in {"outer", "inner"} /\ sa'.pc = "outer") => FALSE

\* C21: the main loop of Simulated Annealing runs only while temperature >
\* final_temperature, the step counter is below max_iterations and time
\* remains; the step counter grows by exactly one per inner step whether or
\* not a neighbour exists or is accepted, so it never exceeds max_iterations;
\* the temperature is updated exactly once after each temperature level.
C21_AnnealLoopBudget ==
    /\ []AnnealWithinBudget
    /\ [][AnnealEntersOnGuard]_vars
    /\ [][AnnealStepCountsOne]_vars
    /\ [][AnnealCoolsOncePerLevel]_vars

\* A run that spent its whole iteration budget over two temperature levels,
\* one step without an accepted neighbour among them.
C21_Witness ==
    /\ sa.pc = "done"
    /\ sa.iteration = sa.config.max_iterations
    /\ sa.iteration = 2
    /\ sa.temp_iteration = 2
    /\ sa.config.iterations_per_temperature = 1
    /\ Len(sa.trace) = 2
    /\ sa.temperature > sa.config.final_temperature

-----------------------------------------------------------------------------
(* Claims about the move generators, under SpecStep.                       *)

\* search_step ran the given neighbourhood on `routes` and returned.
Stepped(neighborhood) ==
    ls.pc = "stepped" /\ ls.neighborhood = neighborhood /\ ~ls.step_panic

\* routes with req moved from v1 into v2: pickup at 0-based position p of
\* v2's route, dropoff at 0-based position q of the route so extended.
Relocated(v1, v2, req, p, q) ==
    [routes EXCEPT
        ![v1] = remove_request_from_route(inst, routes[v1], req),
        ![v2] = InsertAt(InsertAt(routes[v2], p, pickup_index(inst, req)),
                         q, dropoff_index(inst, req))]

\* C22: Relocate(v1, v2), v1 # v2, emits for every request served by v1 one
\* candidate for every insertion position of the pickup in v2's route with
\* every dropoff position after it for which v2's load never exceeds the
\* capacity (the candidate passing the generator's is_valid filter).
C22_RelocateEveryDropoffPosition ==
    Stepped("Relocate") =>
        \A v1 \in 1..Len(routes), v2 \in 1..Len(routes) :
            v1 # v2 =>
                \A req \in Range(extract_requests_from_route(inst, routes[v1])) :
                    \A p \in 0..Len(routes[v2]) : \A q \in (p + 1)..(Len(routes[v2]) + 1) :
                        (/\ check_route_capacity(inst, Relocated(v1, v2, req, p, q)[v2])
                         /\ is_valid(inst, overflow_checks, Relocated(v1, v2, req, p, q)))
                        => Relocated(v1, v2, req, p, q) \in Range(StepNeighbors)

\* The cut points <<v, i, j>> of TwoOpt on routes: a route v of at least 4
\* stops and 0-based positions 1 <= i < j <= len - 2.
CutPairs ==
    {c \in (1..Len(routes)) \X (1..MaxRouteLen) \X (1..MaxRouteLen) :
        /\ Len(routes[c[1]]) >= 4
        /\ c[2] < c[3]
        /\ c[3] <= Len(routes[c[1]]) - 2}

\* routes with the segment [i..j] of route v reversed.
TwoOptReversed(c) ==
    [routes EXCEPT ![c[1]] = SubSeq(@, 1, c[2])
                             \o Reverse(SubSeq(@, c[2] + 1, c[3] + 1))
                             \o SubSeq(@, c[3] + 2, Len(@))]

ValidCutPairs == {c \in CutPairs : is_valid(inst, overflow_checks, TwoOptReversed(c))}

-----------------------------------------------------------------------------
(* Specification SpecMoves: generate_neighbors is called on a valid        *)
(* solution of three routes, so that a move leaves a route untouched.      *)

MoveCapacities == {1, 2}
MoveGammas == {1, 2}
MoveDemands == {<<1, 1>>, <<1, 2>>}

MoveInstances ==
    {Instance(3, c, g, 10, dem, LayoutSpread) :
        c \in MoveCapacities, g \in MoveGammas, dem \in MoveDemands}

\* Two routes of 2 * n_reqs nodes in all at most, room for every request,
\* and a third route that is empty or a single visit of the depot.
MoveRoutes(I) ==
    {Append(ab, c) : ab \in RoutePairs(I, 2 * n_reqs(I)), c \in {<<>>, <<0>>}}

InitMoves ==
    /\ inst \in MoveInstances
    /\ overflow_checks \in BOOLEAN
    /\ routes \in {rs \in MoveRoutes(inst) : is_valid(inst, overflow_checks, rs)}
    /\ valid = "true"
    /\ bs = NoBeam /\ sa = NoAnnealing
    /\ dc = NoConstruction /\ vn = NoVND /\ gr = NoGRASP /\ ev = NoEvaluation
    /\ \E nh \in Neighborhoods :
          ls = [pc |-> "generate", neighborhood |-> nh,
                neighbors |-> <<>>, panic |-> FALSE]

\* `self.generate_neighbors(&current)` with current = routes.
CallGenerateNeighbors ==
    /\ ls.pc = "generate"
    /\ ls' = [ls EXCEPT
                !.pc = "generated",
                !.panic = generate_neighbors_panics(inst, overflow_checks,
                                                    ls.neighborhood, routes),
                !.neighbors = IF generate_neighbors_panics(inst, overflow_checks,
                                                           ls.neighborhood, routes)
                              THEN <<>>
                              ELSE generate_neighbors(inst, overflow_checks,
                                                      ls.neighborhood, routes)]
    /\ UNCHANGED <<inst, overflow_checks, routes, valid, bs, sa, dc, vn, gr, ev>>

NextMoves == CallGenerateNeighbors

SpecMoves == InitMoves /\ [][NextMoves]_vars

-----------------------------------------------------------------------------
(* Claims about the generated moves, under SpecMoves.                      *)

Generated(neighborhood) ==
    ls.pc = "generated" /\ ls.neighborhood = neighborhood /\ ~ls.panic

\* The vehicles whose route in neighbor differs from the current solution.
ModifiedVehicles(neighbor) ==
    {v \in 1..Len(routes) : neighbor[v] # routes[v]}

\* The running load of route stays within the instance's capacity.
LoadWithinCapacity(route) ==
    \A p \in 0..Len(route) : PrefixLoad(inst, route, p) <= inst.cap

MoveTouchesTwoRoutes(neighbor) ==
    /\ Len(neighbor) = Len(routes)
    /\ Cardinality(ModifiedVehicles(neighbor)) <= 2
    /\ \A v \in ModifiedVehicles(neighbor) : LoadWithinCapacity(neighbor[v])

\* C24: every candidate emitted by Relocate or Exchange keeps the running
\* load of each route the move modified within capacity at every position,
\* and differs from the current solution in the routes of at most two
\* vehicles, the other routes being those of the current solution.
C24_MovesCapacityChecked ==
    (Generated("Relocate") \/ Generated("Exchange")) =>
        \A n \in 1..Len(ls.neighbors) : MoveTouchesTwoRoutes(ls.neighbors[n])

\* An Exchange between two loaded routes beside an untouched third one.
C24_Witness ==
    /\ Generated("Exchange")
    /\ \E n \in 1..Len(ls.neighbors) :
          /\ Cardinality(ModifiedVehicles(ls.neighbors[n])) = 2
          /\ \E v \in 1..Len(routes) :
                routes[v] # <<>> /\ ls.neighbors[n][v] = routes[v]
          /\ \E v \in ModifiedVehicles(ls.neighbors[n]) :
                PrefixLoad(inst, ls.neighbors[n][v], 1) = inst.cap

-----------------------------------------------------------------------------
(* Claims about the beam, under SpecBeam.                                  *)

BeamDistinct ==
    \A i, j \in 1..Len(bs.beam) : i # j => bs.beam[i] # bs.beam[j]

BeamAscending ==
    \A i, j \in 1..Len(bs.beam) :
        i < j => Cmp(inst, heuristic_score(inst, bs.beam[i]),
                     heuristic_score(inst, bs.beam[j])) <= 0

\* Every candidate left out scores no lower than every state kept.
BeamKeepsLowest ==
    /\ Range(bs.beam) \subseteq Range(bs.candidates)
    /\ Len(bs.beam) = Min2(bs.beam_width, Cardinality(Range(bs.candidates)))
    /\ \A c \in Range(bs.candidates) \ Range(bs.beam) : \A b \in Range(bs.beam) :
          Cmp(inst, heuristic_score(inst, b), heuristic_score(inst, c)) <= 0

\* C25: after a selection the beam is in ascending heuristic-score order,
\* holds no state twice, and is made of the beam_width lowest-scoring
\* distinct candidates, whatever the length of the candidate list.
C25_BeamSelectionSortedDistinct ==
    bs.selected => BeamAscending /\ BeamDistinct /\ BeamKeepsLowest

\* The successors of the beam that are feasible and serve gamma requests.
CompleteSuccessors ==
    {s \in Range(BeamSuccessors(inst, bs.beam)) :
        s.served_count >= gamma(inst) /\ is_feasible(inst, s)}

\* A pass of the loop is run and its successor set holds a complete state.
CompletingRound ==
    /\ bs.pc = "loop" /\ bs.depth < bs.max_depth /\ bs.beam # <<>>
    /\ CompleteSuccessors # {}

\* The completing round keeps complete successors only, and is followed by
\* the further round exactly if depth < max_depth - 1.
CompletionBuildsBeam ==
    CompletingRound =>
        /\ bs'.found /\ ~bs.found
        /\ Range(bs'.beam) \subseteq CompleteSuccessors
        /\ bs'.rounds = bs.rounds + 1
        /\ bs'.pc = IF bs.depth + 1 < bs.max_depth THEN "bonus" ELSE "return"

\* The further round expands and reselects once; then the search stops.
OneFurtherRound ==
    /\ bs.pc = "bonus" =>
          /\ bs'.pc = "return" /\ bs'.rounds = bs.rounds + 1
          /\ Range(bs'.beam) \subseteq
                Range(bs.beam) \cup Range(BeamSuccessors(inst, bs.beam))
    /\ bs.pc = "return" =>
          bs'.pc = "done" /\ bs'.rounds = bs.rounds /\ bs'.beam = bs.beam
    /\ bs'.pc = "bonus" => CompletingRound

FinalBeamServesGamma ==
    (bs.found /\ bs.pc \in {"bonus", "return", "done"} /\ ~bs.fallback) =>
        \A b \in 1..Len(bs.beam) : bs.beam[b].served_count >= gamma(inst)

\* C26: the first round whose successors include a feasible state with
\* served_count >= gamma builds the beam from the complete successors only;
\* exactly one further expansion-and-reselection round follows if
\* depth < max_depth - 1 and none otherwise; the search then stops, and
\* every state of the final beam has served_count >= gamma.
C26_BeamCompletionHandling ==
    /\ [][CompletionBuildsBeam]_vars
    /\ [][OneFurtherRound]_vars
    /\ []FinalBeamServesGamma

\* The further round has run after a completion that dropped incomplete
\* successors, and the final beam holds states of the further round.
C26_Witness ==
    /\ bs.pc = "return" /\ bs.found /\ bs.rounds = bs.depth + 2
    /\ gamma(inst) = 1 /\ bs.depth = 1
    /\ \E b \in 1..Len(bs.beam) : \E v \in 1..Len(bs.beam[b].routes) :
          Len(bs.beam[b].routes[v]) = 3

StatusRank(status) ==
    CASE status = "Unserved" -> 0 [] status = "PickedUp" -> 1 [] status = "Delivered" -> 2

\* The positions of node in the routes of state, as <<vehicle, position>>.
NodePositions(state, node) ==
    UNION {{<<v, p>> : p \in {q \in 1..Len(state.routes[v]) : state.routes[v][q] = node}}
           : v \in 1..Len(state.routes)}

\* From state to its successor next a request keeps its status or moves one
\* step forward; its vehicle is set with the pickup and kept afterwards.
StatusMovesForward(state, next, r) ==
    /\ StatusRank(next.req_states[r]) - StatusRank(state.req_states[r]) \in {0, 1}
    /\ state.req_states[r] # "Unserved" => next.pickup_vehicle[r] = state.pickup_vehicle[r]
    /\ (state.req_states[r] = "Unserved" /\ next.req_states[r] = "PickedUp") =>
          /\ state.pickup_vehicle[r] = 0
          /\ next.routes[next.pickup_vehicle[r]] =
                Append(state.routes[next.pickup_vehicle[r]], pickup_index(inst, r))
    /\ (state.req_states[r] = "PickedUp" /\ next.req_states[r] = "Delivered") =>
          next.routes[state.pickup_vehicle[r]] =
              Append(state.routes[state.pickup_vehicle[r]], dropoff_index(inst, r))

\* The routes of state hold the nodes the status of request r stands for.
StatusMatchesRoutes(state, r) ==
    LET picks == NodePositions(state, pickup_index(inst, r))
        drops == NodePositions(state, dropoff_index(inst, r))
    IN /\ Cardinality(picks) <= 1 /\ Cardinality(drops) <= 1
       /\ picks = {} <=> state.req_states[r] = "Unserved"
       /\ drops # {} <=> state.req_states[r] = "Delivered"
       /\ \A pk \in picks : pk[1] = state.pickup_vehicle[r]
       /\ \A dr \in drops : \E pk \in picks : pk[1] = dr[1] /\ pk[2] < dr[2]

\* C27: along every path of beam-search states a request's status only
\* moves Unserved -> PickedUp -> Delivered; it is picked up by one vehicle,
\* which never changes, and delivered by that vehicle; each pickup and
\* dropoff node occurs at most once over all routes of a state, the dropoff
\* after the pickup in the same route.
C27_RequestStatusLifecycle ==
    \A b \in 1..Len(bs.beam) : \A r \in 1..n_reqs(inst) :
        /\ StatusMatchesRoutes(bs.beam[b], r)
        /\ \A next \in Range(generate_successors(inst, bs.beam[b])) :
              StatusMovesForward(bs.beam[b], next, r)

\* A beam state with one request delivered and the other one picked up by
\* another vehicle, which has a dropoff among its successors.
C27_Witness ==
    \E b \in 1..Len(bs.beam) :
        /\ bs.beam[b].req_states = <<"Delivered", "PickedUp">>
        /\ bs.beam[b].pickup_vehicle = <<1, 2>>
        /\ \E next \in Range(generate_successors(inst, bs.beam[b])) :
              next.req_states = <<"Delivered", "Delivered">>

\* Read off the routes: the load vehicle v carries at the end of its route,
\* and the requests absent from every route.
CarriedLoad(state, v) == PrefixLoad(inst, state.routes[v], Len(state.routes[v]))

AbsentRequests(state) ==
    {r \in 1..n_reqs(inst) : NodePositions(state, pickup_index(inst, r)) = {}}

ReturnToDepotDue(state, v) ==
    /\ state.routes[v] # <<>>
    /\ Last(state.routes[v]) # 0
    /\ \A r \in AbsentRequests(state) :
          inst.demands[r] > inst.cap - CarriedLoad(state, v)
    /\ \A r \in 1..n_reqs(inst) :
          Occurrences(<<state.routes[v]>>, pickup_index(inst, r))
              = Occurrences(<<state.routes[v]>>, dropoff_index(inst, r))

ReturnToDepotGenerated(state, v) ==
    \E next \in Range(generate_successors(inst, state)) :
        next.routes[v] = Append(state.routes[v], 0)

DepotVisitsInOrder(route) ==
    /\ route # <<>> => route[1] # 0
    /\ \A p \in 1..Len(route) :
          route[p] = 0 =>
              /\ p < Len(route) => route[p + 1] # 0
              /\ PrefixLoad(inst, route, p) = 0

\* C28: a ReturnToDepot(v) successor is generated exactly when v's route is
\* non-empty, does not end at the depot, no unserved request fits v's
\* remaining capacity and v carries no undelivered request; no route of a
\* beam state starts with the depot, holds two depot nodes in a row, or
\* holds a depot node at which v carries load.
C28_ReturnToDepotOnlyWhenDue ==
    \A b \in 1..Len(bs.beam) : \A v \in 1..n_vehicles(inst) :
        /\ ReturnToDepotGenerated(bs.beam[b], v) <=> ReturnToDepotDue(bs.beam[b], v)
        /\ DepotVisitsInOrder(bs.beam[b].routes[v])

\* A vehicle went back to the depot although a request is still unserved,
\* too large for it.
C28_Witness ==
    \E b \in 1..Len(bs.beam) : \E v \in 1..n_vehicles(inst) :
        /\ Len(bs.beam[b].routes[v]) = 3 /\ Last(bs.beam[b].routes[v]) = 0
        /\ AbsentRequests(bs.beam[b]) # {}

-----------------------------------------------------------------------------
(* Claims about the scan of VND, under SpecVND.                            *)

VndNeighbors(k) ==
    Range(generate_neighbors(inst, overflow_checks, vn.config.neighborhoods[k], vn.current))

\* The neighbours of the k-th configured neighbourhood strictly below the
\* current solution.
VndImproving(k) ==
    {n \in VndNeighbors(k) : Less(inst, Obj(n), Obj(vn.current))}

\* The neighbourhoods, in configured order, that hold an improving neighbour.
VndImprovingNeighborhoods ==
    {k \in 1..Len(vn.config.neighborhoods) : VndImproving(k) # {}}

VndScanPanics(k) ==
    \E j \in 1..k : generate_neighbors_panics(inst, overflow_checks,
                                               vn.config.neighborhoods[j], vn.current)

\* The pass accepts a least neighbour of the k-th neighbourhood.
VndAcceptsBestOf(k) ==
    /\ vn'.current \in VndImproving(k)
    /\ \A n \in VndNeighbors(k) : LessEq(inst, Obj(vn'.current), Obj(n))
    /\ vn'.iterations = vn.iterations + 1

\* A pass of the loop of solve.
VndPass == vn.pc = "loop" /\ vn.iterations < vn.config.max_iterations

VndScansInOrder ==
    VndPass =>
        IF VndImprovingNeighborhoods = {}
        THEN vn'.pc # "loop" /\ vn'.current = vn.current
        ELSE \E k \in VndImprovingNeighborhoods :
                /\ \A j \in 1..(k - 1) : j \notin VndImprovingNeighborhoods
                /\ \/ VndScanPanics(k) /\ vn'.pc = "panic"
                   \/ ~VndScanPanics(k) /\ vn'.pc = "loop" /\ VndAcceptsBestOf(k)

\* C29: every pass of VND scans the neighbourhoods in configured order from
\* the first one; it accepts a minimum-objective neighbour of the first
\* neighbourhood that holds a strictly improving neighbour, whatever the
\* later neighbourhoods hold, and breaks when none holds one.
C29_VndFirstImprovingNeighborhood == [][VndScansInOrder]_vars

\* After a pass that took its neighbour from the second neighbourhood, the
\* first one holding no improvement, the first neighbourhood improves again.
C29_Witness ==
    /\ vn.pc = "loop" /\ vn.iterations = 1 /\ Len(vn.config.neighborhoods) = 2
    /\ vn.config.neighborhoods[1] # vn.config.neighborhoods[2]
    /\ vn.current \notin Range(generate_neighbors(inst, overflow_checks,
                                                   vn.config.neighborhoods[1], vn.initial))
    /\ 1 \in VndImprovingNeighborhoods

-----------------------------------------------------------------------------
(* Claims about the inner step of Simulated Annealing, under SpecAnneal.   *)

AnnealNeighbors ==
    Range(generate_neighbors(inst, overflow_checks, sa.config.neighborhood, sa.current))

\* One draw per step: a neighbour of the configured family, none if the
\* family generates none.
AnnealDrawsOne ==
    sa.pc = "inner" =>
        /\ Len(sa'.drawn) <= 1
        /\ IF sa'.drawn = <<>> THEN AnnealNeighbors = {}
           ELSE sa'.drawn[1] \in AnnealNeighbors
        /\ sa'.accepted => sa'.drawn # <<>>

AnnealAcceptsImproving ==
    (sa.pc = "inner" /\ sa.temperature > 0 /\ sa'.drawn # <<>>) =>
        (Less(inst, Obj(sa'.drawn[1]), Obj(sa.current)) =>
            sa'.accepted /\ sa'.current = sa'.drawn[1])

AnnealRejectKeeps ==
    (sa.pc = "inner" /\ sa'.drawn # <<>> /\ ~sa'.accepted) =>
        /\ sa'.current = sa.current
        /\ sa'.best_solution = sa.best_solution
        /\ sa'.best_obj = sa.best_obj
        /\ sa'.trace = sa.trace

-----------------------------------------------------------------------------
(* Claims about the locals of LocalSearch::solve, under SpecLocal.         *)

\* After the initialisation and after every accepted move the best solution
\* is the current one, and no_improvement_count is 0.
CurrentIsBest ==
    ls.pc # "start" =>
        /\ ls.best_solution = ls.current
        /\ ls.best_obj = objective_function_value(inst, ls.current)
        /\ ls.no_improvement_count = 0

\* The loop test fails on no_improvement_count only with max_no_improvement 0.
NoImprovementBudgetOnlyAtZero ==
    (ls.pc = "done" /\ ls.stop = "budget"
        /\ ls.iterations < ls.config.max_iterations
        /\ ls.elapsed < ls.config.time_limit_seconds) =>
        ls.config.max_no_improvement = 0

\* C31: in LocalSearch.solve the current and the best solution are identical
\* after every accepted move and no_improvement_count is 0 in every reachable
\* state, so the max_no_improvement budget stops the search only when it is
\* configured as 0.
C31_CurrentIsBestAndCountZero == CurrentIsBest /\ NoImprovementBudgetOnlyAtZero

\* Two moves were accepted under max_no_improvement = 1.
C31_Witness ==
    /\ ls.pc = "loop"
    /\ ls.iterations = 2 /\ Len(ls.trace) = 3
    /\ ls.config.max_no_improvement = 1
    /\ ls.best_solution = ls.trace[3]

-----------------------------------------------------------------------------
(* Specification SpecSearches: a run of any of the four searches built on  *)
(* the move generator, or a call of the generator itself.                  *)

InitSearches == InitMoves \/ InitLocal \/ InitVND \/ InitGrasp \/ InitAnneal

NextSearches == NextMoves \/ NextLocal \/ NextVND \/ NextGrasp \/ NextAnneal

SpecSearches == InitSearches /\ [][NextSearches]_vars

-----------------------------------------------------------------------------
(* Claims about the solutions the searches move through, under             *)
(* SpecSearches.                                                           *)

Valid(rs) == is_valid(inst, overflow_checks, rs)

\* Every neighbour the generator returns, for each family, is valid.
NeighborsValid(current) ==
    \A nh \in Neighborhoods :
        \A n \in Range(generate_neighbors(inst, overflow_checks, nh, current)) : Valid(n)

GeneratedNeighborsValid ==
    /\ ls.pc = "generated" => \A n \in 1..Len(ls.neighbors) : Valid(ls.neighbors[n])
    /\ vn.pc = "loop" => NeighborsValid(vn.current)
    /\ ls.pc = "loop" => NeighborsValid(ls.current)

\* Every solution that became current after the initial one is valid.
LaterCurrentValid ==
    /\ ls.pc \in {"loop", "done"} => \A k \in 2..Len(ls.trace) : Valid(ls.trace[k])
    /\ sa.pc \notin {"off", "start"} => \A k \in 2..Len(sa.trace) : Valid(sa.trace[k])
    /\ vn.pc \in {"loop", "done"} => (vn.current # vn.initial => Valid(vn.current))
    /\ gr.pc # "off" =>
          \A i \in Passes :
              gr.constructions[i].improved # gr.constructions[i].initial =>
                  Valid(gr.constructions[i].improved)

\* A search returns an invalid solution only if it is a construction.
InvalidResultIsConstruction ==
    /\ (ls.pc = "done" /\ ~Valid(ls.best_solution)) => ls.best_solution = ls.trace[1]
    /\ (sa.pc = "done" /\ ~Valid(sa.best_solution)) => sa.best_solution = sa.trace[1]
    /\ (vn.pc = "done" /\ ~Valid(vn.best_solution)) => vn.best_solution = vn.initial
    /\ (gr.pc = "done" /\ ~Valid(routes)) => gr.fallback

\* C32: every neighbour the move generator returns, for each of the three
\* families, satisfies is_valid; so in LocalSearch, VND, GRASP and
\* Simulated Annealing every solution that becomes current after the
\* initial one is valid, and an invalid solution is returned only if it is
\* the initial construction.
C32_NeighborsAndCurrentsValid ==
    GeneratedNeighborsValid /\ LaterCurrentValid /\ InvalidResultIsConstruction

\* VND returns its invalid initial construction, having found no neighbour.
C32_Witness ==
    /\ vn.pc = "done" /\ ~Valid(vn.best_solution) /\ vn.config.neighborhoods # <<>>
    /\ vn.config.max_iterations > 0

\* Every request occurs at most once in rs: no node twice, and a pickup
\* exactly with its dropoff, later in the same route.
ServedOnce(rs) ==
    \A r \in 1..n_reqs(inst) :
        /\ Occurrences(rs, pickup_index(inst, r)) <= 1
        /\ Occurrences(rs, dropoff_index(inst, r)) <= 1
        /\ Occurrences(rs, pickup_index(inst, r)) = 1 <=> r \in FullyServed(inst, rs)
        /\ Occurrences(rs, dropoff_index(inst, r)) = 1 <=> r \in FullyServed(inst, rs)

SameRequests(rs, other) == FullyServed(inst, rs) = FullyServed(inst, other)

\* The neighbours of a solution that serves every request once serve the
\* requests it serves.
NeighborsServeSame(current) ==
    ServedOnce(current) =>
        \A nh \in Neighborhoods :
            \A n \in Range(generate_neighbors(inst, overflow_checks, nh, current)) :
                SameRequests(n, current) /\ ServedOnce(n)

GeneratedNeighborsServeSame ==
    /\ (ls.pc = "generated" /\ ServedOnce(routes)) =>
          \A n \in 1..Len(ls.neighbors) : SameRequests(ls.neighbors[n], routes)
    /\ vn.pc = "loop" => NeighborsServeSame(vn.current)
    /\ ls.pc = "loop" => NeighborsServeSame(ls.current)

\* The searches keep the requests of their initial construction.
SearchesServeSame ==
    /\ ls.pc \in {"loop", "done"} =>
          \A k \in 1..Len(ls.trace) :
              SameRequests(ls.trace[k], ls.trace[1]) /\ ServedOnce(ls.trace[k])
    /\ sa.pc \notin {"off", "start"} =>
          \A k \in 1..Len(sa.trace) :
              SameRequests(sa.trace[k], sa.trace[1]) /\ ServedOnce(sa.trace[k])
    /\ vn.pc \in {"loop", "done"} =>
          SameRequests(vn.current, vn.initial) /\ ServedOnce(vn.current)
    /\ gr.pc # "off" =>
          \A i \in Passes :
              /\ SameRequests(gr.constructions[i].improved, gr.constructions[i].initial)
              /\ ServedOnce(gr.constructions[i].improved)

\* C33: from a current solution in which every request occurs at most once,
\* pickup before dropoff in one route, every neighbour of Relocate, Exchange
\* and TwoOpt serves exactly the requests the current solution serves; so
\* after any sequence of moves in LocalSearch, VND, GRASP and Simulated
\* Annealing the served requests are those of the initial construction.
C33_MovesKeepServedRequests == GeneratedNeighborsServeSame /\ SearchesServeSame

\* Simulated Annealing accepted two moves, to a solution that is neither of
\* the earlier ones.
C33_Witness ==
    /\ sa.pc = "done" /\ Len(sa.trace) = 3
    /\ sa.trace[3] # sa.trace[1] /\ sa.trace[3] # sa.trace[2]
    /\ Cardinality(FullyServed(inst, sa.trace[3])) = 2

-----------------------------------------------------------------------------
(* Claims about the bookkeeping of PartialSolution, under SpecBeam.        *)

\* The requests vehicle v has picked up and not yet delivered in state.
OnBoard(state, v) ==
    {r \in 1..n_reqs(inst) :
        state.req_states[r] = "PickedUp" /\ state.pickup_vehicle[r] = v}

RECURSIVE DemandOf(_)
DemandOf(requests) ==
    IF requests = {} THEN 0
    ELSE LET r == CHOOSE x \in requests : TRUE
         IN inst.demands[r] + DemandOf(requests \ {r})

BookkeepingRight(state) ==
    /\ \A v \in 1..n_vehicles(inst) :
          /\ state.current_loads[v] = DemandOf(OnBoard(state, v))
          /\ state.current_loads[v] <= inst.cap
    /\ state.served_count =
          Cardinality({r \in 1..n_reqs(inst) : state.req_states[r] = "Delivered"})
    /\ \A r \in 1..n_reqs(inst) :
          state.pickup_vehicle[r] # 0 <=> state.req_states[r] # "Unserved"

\* C34: in every partial solution of beam search current_loads[v] is the
\* sum of the demands picked up by v and not yet delivered and is within
\* capacity, served_count is the number of Delivered requests, and
\* pickup_vehicle[r] is set exactly when r is not Unserved; every generated
\* successor passes is_feasible.
C34_PartialSolutionBookkeeping ==
    \A b \in 1..Len(bs.beam) :
        /\ BookkeepingRight(bs.beam[b])
        /\ is_feasible(inst, bs.beam[b])
        /\ \A next \in Range(generate_successors(inst, bs.beam[b])) :
              BookkeepingRight(next) /\ is_feasible(inst, next)

\* A beam state with a delivered request and a vehicle loaded to capacity
\* by the request it has on board.
C34_Witness ==
    \E b \in 1..Len(bs.beam) : \E v \in 1..n_vehicles(inst) :
        /\ bs.beam[b].current_loads[v] = inst.cap
        /\ Cardinality(OnBoard(bs.beam[b], v)) = 1
        /\ bs.beam[b].served_count = 1
        /\ generate_successors(inst, bs.beam[b]) # <<>>

-----------------------------------------------------------------------------
(* Claims about the random construction, under SpecConstruct.              *)

RandomlyConstructed ==
    dc.pc = "done" /\ dc.kind # "Deterministic" /\ n_vehicles(inst) >= 1

\* The requests with a node in the routes.
SelectedRequests ==
    {r \in 1..n_reqs(inst) :
        Occurrences(routes, pickup_index(inst, r))
            + Occurrences(routes, dropoff_index(inst, r)) > 0}

\* C36: random construction, uniform or biased, with at least one vehicle
\* returns a solution of exactly min(gamma, n_reqs) distinct requests, each
\* a pickup immediately followed by its dropoff; no request is skipped for
\* its demand, so the result is valid exactly when gamma <= n_reqs and
\* every selected demand is within capacity.
C36_RandomConstructionServesGamma ==
    RandomlyConstructed =>
        /\ ~dc.panic
        /\ Cardinality(SelectedRequests) = Min2(gamma(inst), n_reqs(inst))
        /\ \A r \in SelectedRequests : ServedAdjacent(inst, routes, r)
        /\ \A v \in 1..Len(routes) : \A p \in 1..Len(routes[v]) : routes[v][p] # 0
        /\ valid = "true" <=>
              /\ gamma(inst) <= n_reqs(inst)
              /\ \A r \in SelectedRequests : inst.demands[r] <= inst.cap

\* A uniform construction that kept a request too large for every vehicle.
C36_Witness ==
    /\ RandomlyConstructed /\ dc.kind = "Uniform"
    /\ n_vehicles(inst) = 2 /\ gamma(inst) = 2 /\ n_reqs(inst) = 3
    /\ \E r \in SelectedRequests : inst.demands[r] > inst.cap
    /\ valid = "false"

-----------------------------------------------------------------------------
(* Claims about GRASP's improvement loops, under SpecGrasp.                *)

\* The neighbours the loop of the configured strategy looks at.
GraspLoopNeighbors(current) ==
    IF gr.config.local_search_strategy = "CompositeNeighborhood"
    THEN AllNeighbors(inst, overflow_checks, current)
    ELSE generate_neighbors(inst, overflow_checks,
                            gr.config.local_search_strategy, current)

\* No solution of `neighbors` has an objective below obj.
NoneBelow(neighbors, obj) ==
    \A n \in neighbors : ~Less(inst, Obj(n), obj)

\* The loop left `initial` only for a strictly lower objective, and ended
\* where no neighbour is strictly better.
LoopDescendsToOptimum(c) ==
    /\ c.improved # c.initial => Less(inst, Obj(c.improved), Obj(c.initial))
    /\ NoneBelow(Range(GraspLoopNeighbors(c.improved)), Obj(c.improved))

\* The first step took the best of all neighbours, and later steps only
\* lowered the objective: no neighbour of `initial` beats the result.
LoopTookGlobalBest(c) ==
    NoneBelow(Range(GraspLoopNeighbors(c.initial)), Obj(c.improved))

\* What local search made of the construction of the latest pass.
LoopResultRight(c) ==
    c.searched =>
        IF gr.config.local_search_strategy = "VND"
        THEN gr.config.local_search_max_iterations = 0 => c.improved = c.initial
        ELSE LoopDescendsToOptimum(c) /\ LoopTookGlobalBest(c)

\* C37: the single-neighbourhood and composite loops of GRASP run until no
\* neighbour is strictly better, whatever local_search_max_iterations and
\* the time limit are; each accepted step strictly lowers the objective;
\* the composite loop steps to the best of the union of the three
\* neighbourhoods.  Only the VND strategy honours the iteration cap.
C37_GraspLoopsUnboundedDescent ==
    (gr.pc = "loop" /\ gr.constructions # <<>>)
        => LoopResultRight(Last(gr.constructions))

\* A composite loop that improved its start under an iteration cap of zero.
C37_Witness ==
    /\ gr.pc = "loop" /\ gr.constructions # <<>>
    /\ gr.config.local_search_strategy = "CompositeNeighborhood"
    /\ gr.config.local_search_max_iterations = 0
    /\ Last(gr.constructions).searched
    /\ Last(gr.constructions).improved # Last(gr.constructions).initial
    /\ GraspLoopNeighbors(Last(gr.constructions).improved) # <<>>

-----------------------------------------------------------------------------
(* Claims about the solution beam search returns, under SpecBeam.          *)

\* The positions of the final beam whose state serves gamma requests.
ServingPositions == {j \in 1..Len(bs.beam) : bs.beam[j].served_count >= gamma(inst)}

\* Position k is the first of ServingPositions of least objective.
FirstOfLeastObjective(k) ==
    \A j \in ServingPositions :
        IF j < k THEN Less(inst, Obj(bs.beam[k].routes), Obj(bs.beam[j].routes))
        ELSE LessEq(inst, Obj(bs.beam[k].routes), Obj(bs.beam[j].routes))

\* C38: a non-fallback result of beam search is the state of the final
\* beam of least objective_function_value among those with served_count >=
\* gamma, the first of them in beam order on ties.
C38_BeamReturnsFirstMinObjective ==
    (bs.pc = "done" /\ ~bs.fallback) =>
        \E k \in ServingPositions :
            /\ FirstOfLeastObjective(k)
            /\ bs.result = bs.beam[k].routes

\* A result that is neither the head of the beam nor its only state of
\* least objective: a later state with other routes ties with it.
C38_Witness ==
    /\ bs.pc = "done" /\ ~bs.fallback
    /\ bs.result # bs.beam[1].routes
    /\ \E j \in ServingPositions :
          /\ bs.beam[j].routes # bs.result
          /\ Cmp(inst, Obj(bs.beam[j].routes), Obj(bs.result)) = 0
    /\ \E j \in ServingPositions :
          Less(inst, Obj(bs.result), Obj(bs.beam[j].routes))

-----------------------------------------------------------------------------
(* f64 arithmetic of assign_requests_biased.  A natural number is the      *)
(* sequence of its digits in base LimbBase, lowest first, without leading  *)
(* zeros; a positive f64 is [m, e] of value m * 2^e with m of MantissaBits *)
(* bits.  Every operation rounds to nearest, ties to even.                 *)

LimbBits == 14
LimbBase == 2 ^ LimbBits
MantissaBits == 53

RECURSIVE BigTrim(_)
BigTrim(a) ==
    IF a = <<>> THEN <<>>
    ELSE IF a[Len(a)] = 0 THEN BigTrim(SubSeq(a, 1, Len(a) - 1)) ELSE a

BigLimb(a, i) == IF i <= Len(a) THEN a[i] ELSE 0

Max2(a, b) == IF a >= b THEN a ELSE b

BigAdd(a, b) ==
    LET n == Max2(Len(a), Len(b)) + 1
        carry[i \in 0..n] ==
            IF i = 0 THEN 0
            ELSE (BigLimb(a, i) + BigLimb(b, i) + carry[i - 1]) \div LimbBase
    IN BigTrim([i \in 1..n |->
                   (BigLimb(a, i) + BigLimb(b, i) + carry[i - 1]) % LimbBase])

\* a - b for a >= b.
BigSub(a, b) ==
    LET n == Len(a)
        borrow[i \in 0..n] ==
            IF i = 0 THEN 0
            ELSE IF BigLimb(a, i) - BigLimb(b, i) - borrow[i - 1] < 0 THEN 1 ELSE 0
    IN BigTrim([i \in 1..n |->
                   (BigLimb(a, i) - BigLimb(b, i) - borrow[i - 1] + LimbBase) % LimbBase])

RECURSIVE BigCmpFrom(_, _, _)
BigCmpFrom(a, b, i) ==
    IF i = 0 THEN 0
    ELSE IF a[i] # b[i] THEN Sign(a[i] - b[i])
    ELSE BigCmpFrom(a, b, i - 1)

BigCmp(a, b) ==
    IF Len(a) # Len(b) THEN Sign(Len(a) - Len(b)) ELSE BigCmpFrom(a, b, Len(a))

\* a * k for a digit k.
BigMulSmall(a, k) ==
    LET n == Len(a) + 1
        carry[i \in 0..n] ==
            IF i = 0 THEN 0 ELSE (BigLimb(a, i) * k + carry[i - 1]) \div LimbBase
    IN BigTrim([i \in 1..n |-> (BigLimb(a, i) * k + carry[i - 1]) % LimbBase])

BigShlLimbs(a, q) == IF a = <<>> THEN <<>> ELSE [i \in 1..q |-> 0] \o a

RECURSIVE BigMulFrom(_, _, _)
BigMulFrom(a, b, i) ==
    IF i > Len(b) THEN <<>>
    ELSE BigAdd(BigShlLimbs(BigMulSmall(a, b[i]), i - 1), BigMulFrom(a, b, i + 1))

BigMul(a, b) == BigMulFrom(a, b, 1)

\* a * 2^k.
BigShl(a, k) == BigShlLimbs(BigMulSmall(a, 2 ^ (k % LimbBits)), k \div LimbBits)

\* a \div d for a digit d >= 1.
BigDivSmall(a, d) ==
    LET n == Len(a)
        rest[i \in 1..(n + 1)] ==
            IF i = n + 1 THEN 0 ELSE (rest[i + 1] * LimbBase + a[i]) % d
    IN BigTrim([i \in 1..n |-> (rest[i + 1] * LimbBase + a[i]) \div d])

\* a \div 2^k.
BigShr(a, k) ==
    IF k \div LimbBits >= Len(a) THEN <<>>
    ELSE BigDivSmall(SubSeq(a, (k \div LimbBits) + 1, Len(a)), 2 ^ (k % LimbBits))

\* The number of bits of a.
BitLen(a) ==
    IF a = <<>> THEN 0
    ELSE LimbBits * (Len(a) - 1)
           + (CHOOSE n \in 1..LimbBits : 2 ^ (n - 1) <= a[Len(a)] /\ a[Len(a)] < 2 ^ n)

BigOdd(a) == a # <<>> /\ a[1] % 2 = 1

\* The f64 nearest to N * 2^e, N > 0; sticky says that the exact value lies
\* strictly above N * 2^e and below (N + 1) * 2^e.
RoundedUp(q, rest, half, sticky) ==
    \/ BigCmp(rest, half) > 0
    \/ BigCmp(rest, half) = 0 /\ (sticky \/ BigOdd(q))

Renormalized(m, e) ==
    IF BitLen(m) > MantissaBits THEN [m |-> BigShr(m, 1), e |-> e + 1]
    ELSE [m |-> m, e |-> e]

RoundKept(q, rest, k, e, sticky) ==
    Renormalized(IF RoundedUp(q, rest, BigShl(<<1>>, k - 1), sticky)
                 THEN BigAdd(q, <<1>>) ELSE q,
                 e + k)

FRound(N, e, sticky) ==
    IF BitLen(N) <= MantissaBits
    THEN [m |-> BigShl(N, MantissaBits - BitLen(N)), e |-> e - (MantissaBits - BitLen(N))]
    ELSE RoundKept(BigShr(N, BitLen(N) - MantissaBits),
                   BigSub(N, BigShl(BigShr(N, BitLen(N) - MantissaBits),
                                    BitLen(N) - MantissaBits)),
                   BitLen(N) - MantissaBits, e, sticky)

\* `n as f64` for a digit n >= 1.
FInt(n) == FRound(<<n>>, 0, FALSE)

FMul(x, y) == FRound(BigMul(x.m, y.m), x.e + y.e, FALSE)

FAdd(x, y) ==
    FRound(BigAdd(BigShl(x.m, x.e - Min2(x.e, y.e)), BigShl(y.m, y.e - Min2(x.e, y.e))),
           Min2(x.e, y.e), FALSE)

\* One bit of long division by d: from quotient q and remainder r < d to
\* those of twice the dividend.
DivStep(s, d) ==
    IF BigCmp(BigAdd(s.r, s.r), d) >= 0
    THEN [q |-> BigAdd(BigAdd(s.q, s.q), <<1>>), r |-> BigSub(BigAdd(s.r, s.r), d)]
    ELSE [q |-> BigAdd(s.q, s.q), r |-> BigAdd(s.r, s.r)]

\* k bits of long division.
RECURSIVE DivBits(_, _, _)
DivBits(s, d, k) ==
    IF k = 0 THEN s
    ELSE CHOOSE res \in {DivBits(t, d, k - 1) : t \in {DivStep(s, d)}} : TRUE

\* MantissaBits + 2 bits of long division, a digit at a time.
DivMantissa(s, d) ==
    DivBits(DivBits(DivBits(DivBits(s, d, LimbBits), d, LimbBits), d, LimbBits),
            d, MantissaBits + 2 - 3 * LimbBits)

FQuotient(s, e) == FRound(s.q, e, s.r # <<>>)

FDiv(x, y) ==
    FQuotient(IF BigCmp(x.m, y.m) >= 0
              THEN DivMantissa([q |-> <<1>>, r |-> BigSub(x.m, y.m)], y.m)
              ELSE DivMantissa([q |-> <<>>, r |-> x.m], y.m),
              x.e - y.e - (MantissaBits + 2))

FCmp(x, y) == IF x.e # y.e THEN Sign(x.e - y.e) ELSE BigCmp(x.m, y.m)

-----------------------------------------------------------------------------
(* assign_requests_biased in f64, one request at a time.                   *)

\* `vehicle_scores[vehicle_id] *= 0.8`: the literal is the f64 nearest 4/5.
ScoreDecay == FDiv(FInt(4), FInt(5))

\* `vehicle_scores.iter().sum()` over the first k scores.
RECURSIVE TotalScore(_, _)
TotalScore(vehicle_scores, k) ==
    IF k = 1 THEN vehicle_scores[1]
    ELSE FAdd(TotalScore(vehicle_scores, k - 1), vehicle_scores[k])

\* cum_prob after vehicle k: the sum is 0.0 before the first.
RECURSIVE CumProb(_, _, _)
CumProb(vehicle_scores, total_score, k) ==
    IF k = 1 THEN FDiv(vehicle_scores[1], total_score)
    ELSE FAdd(CumProb(vehicle_scores, total_score, k - 1),
              FDiv(vehicle_scores[k], total_score))

\* The cum_prob of every vehicle; every score is positive, so that
\* total_score > 0.0.
CumProbs(vehicle_scores) ==
    [k \in 1..Len(vehicle_scores) |->
        CumProb(vehicle_scores, TotalScore(vehicle_scores, Len(vehicle_scores)), k)]

\* vehicle_probs after `sort_by(|a, b| b.1.partial_cmp(&a.1).unwrap())`: a
\* stable sort by descending cum_prob.
SortedAscending(cum) ==
    LET Before(j, i) == \/ FCmp(cum[j], cum[i]) < 0
                        \/ FCmp(cum[j], cum[i]) = 0 /\ j < i
    IN [k \in 1..Len(cum) |->
           CHOOSE i \in 1..Len(cum) :
               1 + Cardinality({j \in 1..Len(cum) : Before(j, i)}) = k]
SortedByCumProb(cum) ==
    LET Before(j, i) == \/ FCmp(cum[j], cum[i]) > 0
                        \/ FCmp(cum[j], cum[i]) = 0 /\ j < i
    IN [k \in 1..Len(cum) |->
           CHOOSE i \in 1..Len(cum) :
               1 + Cardinality({j \in 1..Len(cum) : Before(j, i)}) = k]

\* The vehicle the request goes to: the first of vehicle_probs that can
\* take it, else vehicle_probs[0].
BiasedVehicle(I, rs, vehicle_scores, req_id) ==
    FirstAssignable(I, rs, SortedByCumProb(CumProbs(vehicle_scores)), req_id)

-----------------------------------------------------------------------------
(* Specification SpecBiased: RandomConstruction::construct_solution with   *)
(* biased = true, one action per selected request.                         *)

MaxBiasedRequests == 166
MaxBiasedVehicles == 2

\* Requests on a line, pickups to the right of the depot.
LayoutLine(n) == [i \in 1..(2 * n + 1) |-> <<i - 1, 0>>]

BiasedInstances ==
    {Instance(nv, c, g, 1, [r \in 1..MaxBiasedRequests |-> 1],
              LayoutLine(MaxBiasedRequests)) :
        nv \in 0..MaxBiasedVehicles, c \in {0, 1}, g \in {2, MaxBiasedRequests}}

\* What `all_requests.shuffle(&mut rng)` leaves: the requests in order or
\* in reverse order.
BiasedShuffles(n) == {[i \in 1..n |-> i], [i \in 1..n |-> n + 1 - i]}

InitBiased ==
    /\ inst \in BiasedInstances
    /\ overflow_checks \in BOOLEAN
    /\ routes = [v \in 1..n_vehicles(inst) |-> <<>>]
    /\ valid = "none"
    /\ bs = NoBeam /\ ls = NoLocalSearch /\ sa = NoAnnealing
    /\ vn = NoVND /\ gr = NoGRASP /\ ev = NoEvaluation
    /\ \E all_requests \in BiasedShuffles(n_reqs(inst)) :
          dc = [pc |-> "assign", kind |-> "Biased", panic |-> FALSE,
                selected_requests |->
                    SubSeq(all_requests, 1, Min2(gamma(inst), n_reqs(inst))),
                vehicle_scores |-> [v \in 1..n_vehicles(inst) |-> FInt(1)],
                chosen |-> <<>>]      \* the vehicle of each request so far

BiasedUnchanged == UNCHANGED <<inst, overflow_checks, valid, bs, ls, sa, vn, gr, ev>>

\* One pass of `for &req_id in selected_requests` with a vehicle.
BiasedAssign ==
    /\ dc.pc = "assign"
    /\ dc.selected_requests # <<>>
    /\ n_vehicles(inst) > 0
    /\ \E vehicle_id \in {BiasedVehicle(inst, routes, dc.vehicle_scores,
                                        Head(dc.selected_requests))} :
          /\ routes' = assign_request_to_vehicle(inst, routes, vehicle_id,
                                                 Head(dc.selected_requests))
          /\ dc' = [dc EXCEPT !.selected_requests = Tail(@),
                              !.vehicle_scores[vehicle_id] = FMul(@, ScoreDecay),
                              !.chosen = Append(@, vehicle_id)]
    /\ BiasedUnchanged

\* One pass without vehicles: vehicle_probs is empty, nothing is assigned.
BiasedNoVehicle ==
    /\ dc.pc = "assign"
    /\ dc.selected_requests # <<>>
    /\ n_vehicles(inst) = 0
    /\ dc' = [dc EXCEPT !.selected_requests = Tail(@)]
    /\ UNCHANGED routes
    /\ BiasedUnchanged

\* The loop is over: construct_solution returns the solution.
BiasedReturn ==
    /\ dc.pc = "assign"
    /\ dc.selected_requests = <<>>
    /\ dc' = [dc EXCEPT !.pc = "done"]
    /\ UNCHANGED routes
    /\ BiasedUnchanged

NextBiased == BiasedAssign \/ BiasedNoVehicle \/ BiasedReturn

SpecBiased == InitBiased /\ [][NextBiased]_vars

-----------------------------------------------------------------------------
(* Claims about the biased construction, under SpecBiased.                 *)

\* Request number k of the run went to the vehicle of highest index.
WentToLastVehicle(k) == dc.chosen[k] = n_vehicles(inst)

OtherRoutesEmpty == \A v \in 1..(n_vehicles(inst) - 1) : routes[v] = <<>>

====
